---- MODULE Spec2Model ----
(***************************************************************************)
(* A model of the raster canvas of the charting library                    *)
(* (src/src/figure/canvas/pixelcanvas.rs): the RGB byte buffer and the     *)
(* operations that write it.                                               *)
(*                                                                         *)
(* u32 values are kept at their width: a u32 is a pair <<hi, lo>> of two   *)
(* 16-bit limbs, and +, -, * are computed modulo 2^32 with the overflow    *)
(* reported, because the two build profiles differ exactly there: with     *)
(* overflow checks (the debug profile) an overflowing u32 operation        *)
(* panics, without them (the release profile) it wraps.  usize is taken to *)
(* be 64 bits wide.                                                        *)
(***************************************************************************)
EXTENDS Integers, Sequences, FiniteSets, TLC

\* ------------------------------------------------------------------ bounds
MaxW == 5
MaxH == 3
MaxMargin == 2
MaxDash == 3
MaxStep == 2

\* The colours handed to the drawing calls, and the backgrounds handed to new.
Colors == {<<50, 150, 250>>, <<40, 140, 240>>}
LineColors == {<<50, 150, 250>>}
Backgrounds == {<<10, 20, 30>>, <<255, 255, 255>>}
\* An alpha is a fraction <<n, d>> with d a power of two, so that the f64
\* arithmetic of blend_pixel is exact on it: 0.0, 0.5 and 1.0.
Alphas == {<<0, 1>>, <<1, 2>>, <<1, 1>>}

\* ------------------------------------------------------- u32 arithmetic
Limb == 2 ^ 16

\* `v as u32` for an i32 (or a small natural): the value modulo 2^32.
AsU32(i) == <<(i \div Limb) % Limb, i % Limb>>

\* a + b on u32: the wrapped sum and whether it overflowed.
AddU32(a, b) ==
    LET lo == a[2] + b[2]
        hi == a[1] + b[1] + (lo \div Limb)
    IN  [val |-> <<hi % Limb, lo % Limb>>, ovf |-> hi >= Limb]

\* a - b on u32: the wrapped difference and whether it underflowed.
SubU32(a, b) ==
    LET lo == a[2] - b[2]
        hi == a[1] - b[1] + (lo \div Limb)
    IN  [val |-> <<hi % Limb, lo % Limb>>, ovf |-> hi < 0]

\* a * k on u32 for a factor k < 2^15 (the widths and the 3 of the model).
MulU32(a, k) ==
    LET lo == a[2] * k
        hi == a[1] * k + (lo \div Limb)
    IN  [val |-> <<hi % Limb, lo % Limb>>, ovf |-> hi >= Limb]

\* `index + 2 < self.buffer.len()` with index a u32 widened to usize.
IndexInBuffer(index, len) ==
    LET lo == index[2] + 2
        hi == index[1] + (lo \div Limb)
    IN  \/ hi < len \div Limb
        \/ (hi = len \div Limb /\ lo % Limb < len % Limb)

\* The value of a u32 known to be below 2^31.
U32ToInt(a) == a[1] * Limb + a[2]

\* --------------------------------------------------------------- state
VARIABLES
    width,             \* PixelCanvas.width
    height,            \* PixelCanvas.height
    background_color,  \* PixelCanvas.background_color
    buffer,            \* PixelCanvas.buffer: byte i of the Vec is buffer[i + 1]
    margin,            \* PixelCanvas.margin
    overflow_checks,   \* the build profile: TRUE when u32 overflow panics
    panicked,          \* TRUE once a call has panicked (the canvas is gone)
    last               \* the last call: its name, arguments and the buffer before it

\* The other objects of the library, each the state of one object:
VARIABLES
    svg,               \* an SvgCanvas, with the text it last emitted
    graph,             \* a Quadrant1Graph
    dataset,           \* a dataset behind the Dataset trait
    figure             \* a figure handed to Drawer::draw

canvasVars == <<width, height, background_color, buffer, margin, overflow_checks,
                panicked, last>>

vars == <<width, height, background_color, buffer, margin, overflow_checks,
          panicked, last, svg, graph, dataset, figure>>

\* An object that a specification does not construct.
NoObject == [op |-> "none"]

NoStyle == <<"None", 0, 0>>

Call(op, args, color, alpha, style) ==
    [op |-> op, args |-> args, color |-> color, alpha |-> alpha,
     style |-> style, pre |-> buffer, after |-> last.op]

\* new with the buffer filled with the first background byte.
newWithBackground(w, h) == [i \in 1..(w * h * 3) |-> background_color[1]]

\* PixelCanvas::new: a zero-filled buffer of width * height * 3 bytes.
new(w, h) == [i \in 1..(w * h * 3) |-> 0]

\* The canvas in the middle of a call: its buffer and whether the call panicked.
Canvas(buf, pan) == [buffer |-> buf, panicked |-> pan]

Init ==
    /\ width \in 1..MaxW
    /\ height \in 1..MaxH
    /\ background_color \in Backgrounds
    /\ margin \in 0..MaxMargin
    /\ overflow_checks \in BOOLEAN
    /\ buffer = new(width, height)
    /\ panicked = FALSE
    /\ last = [op |-> "new", args |-> <<>>, color |-> background_color,
               alpha |-> <<0, 1>>, style |-> NoStyle, pre |-> <<>>,
               after |-> "none"]
    /\ svg = NoObject /\ graph = NoObject /\ dataset = NoObject /\ figure = NoObject

\* ---------------------------------------------------------- operations
\* clear as a fill with the three channels of the background.
clearThreeChannels(cv) ==
    Canvas([i \in DOMAIN cv.buffer |-> background_color[((i - 1) % 3) + 1]], cv.panicked)

\* clear as a fresh buffer of one byte for every pixel.
clearOneBytePerPixel(cv) ==
    Canvas([i \in 1..(width * height) |-> background_color[1]], cv.panicked)

\* PixelCanvas::clear: every byte becomes background_color[0].
clear(cv) == Canvas([i \in DOMAIN cv.buffer |-> background_color[1]], cv.panicked)

\* PixelIndex with the coordinates taken the wrong way round.
PixelIndexTransposed(x, y) ==
    LET m == MulU32(x, width)
        a == AddU32(m.val, y)
        t == MulU32(a.val, 3)
    IN  [val |-> t.val, ovf |-> m.ovf \/ a.ovf \/ t.ovf]

\* `((y * self.width + x) * 3)` in u32: the wrapped index and whether any of
\* the three operations overflowed.
PixelIndex(x, y) ==
    LET m == MulU32(y, width)
        a == AddU32(m.val, x)
        t == MulU32(a.val, 3)
    IN  [val |-> t.val, ovf |-> m.ovf \/ a.ovf \/ t.ovf]

\* The three bytes written at a byte offset that passed the bounds check.
WriteAt(buf, index, color) ==
    [buf EXCEPT ![index + 1] = color[1], ![index + 2] = color[2], ![index + 3] = color[3]]

\* PixelCanvas::draw_pixel, x and y being u32 values.  A canvas that has
\* panicked stays as the panic left it.
draw_pixel(cv, x, y, color) ==
    IF cv.panicked THEN cv
    ELSE LET ix == PixelIndex(x, y)
         IN  IF overflow_checks /\ ix.ovf THEN Canvas(cv.buffer, TRUE)
             ELSE IF IndexInBuffer(ix.val, Len(cv.buffer))
                  THEN Canvas(WriteAt(cv.buffer, U32ToInt(ix.val), color), FALSE)
                  ELSE cv

\* `v as u8` for the f64 v = num / den: truncation towards zero, saturating.
F64AsU8(num, den) ==
    IF num <= 0 THEN 0
    ELSE IF num \div den > 255 THEN 255 ELSE num \div den

\* BlendChannel with the two weights exchanged.
BlendChannelSwapped(c, e, a) == F64AsU8(c * (a[2] - a[1]) + e * a[1], a[2])

\* One channel of blend_pixel: color * alpha + existing * (1.0 - alpha), as u8,
\* alpha being a[1] / a[2].
BlendChannel(c, e, a) == F64AsU8(c * a[1] + e * (a[2] - a[1]), a[2])

\* PixelCanvas::blend_pixel.
blend_pixel(cv, x, y, color, a) ==
    IF cv.panicked THEN cv
    ELSE LET ix == PixelIndex(x, y)
         IN  IF overflow_checks /\ ix.ovf THEN Canvas(cv.buffer, TRUE)
             ELSE IF IndexInBuffer(ix.val, Len(cv.buffer))
                  THEN LET i == U32ToInt(ix.val)
                           blended == <<BlendChannel(color[1], cv.buffer[i + 1], a),
                                        BlendChannel(color[2], cv.buffer[i + 2], a),
                                        BlendChannel(color[3], cv.buffer[i + 3], a)>>
                       IN  Canvas(WriteAt(cv.buffer, i, blended), FALSE)
                  ELSE cv

\* ------------------------------------------- loops over a wrapped range
\* Without overflow checks `extent - margin` wraps when margin > extent, and
\* the loop then runs over almost all of u32: far too many passes to unroll.
\* Its effect is computed from the other end: for a byte offset i, the
\* passes t whose pixel index 3 * (A * t + B) is i modulo 2^32.  Numbers up
\* to 2^48 are three 16-bit limbs <<l2, l1, l0>>.
BigDivSmall(n, k) ==
    LET c1 == (n[1] % k) * Limb + n[2]
        c0 == (c1 % k) * Limb + n[3]
    IN  [q |-> <<n[1] \div k, c1 \div k, c0 \div k>>, r |-> c0 % k]

BigSubSmall(n, b) ==
    LET l0 == n[3] - b
        l1 == n[2] + (l0 \div Limb)
        l2 == n[1] + (l1 \div Limb)
    IN  [val |-> <<l2, l1 % Limb, l0 % Limb>>, neg |-> l2 < 0]

BigLt(a, b) ==
    \/ a[1] < b[1]
    \/ (a[1] = b[1] /\ a[2] < b[2])
    \/ (a[1] = b[1] /\ a[2] = b[2] /\ a[3] < b[3])

Big(u) == <<0, u[1], u[2]>>

\* The passes t in tmin..tmax with 3 * (A * t + B) = i + j * 2^32 for some j:
\* since t < 2^32, j is at most 3 * A.
PassesAt(A, B, i, tmin, tmax) ==
    LET Cand(j) ==
            LET d3 == BigDivSmall(<<j, i \div Limb, i % Limb>>, 3)
                s  == BigSubSmall(d3.q, B)
                dA == BigDivSmall(s.val, A)
            IN  [t |-> dA.q, ok |-> d3.r = 0 /\ ~s.neg /\ dA.r = 0]
    IN  {Cand(j).t : j \in {k \in 0..(3 * A) :
            /\ Cand(k).ok
            /\ ~BigLt(Cand(k).t, tmin)
            /\ ~BigLt(tmax, Cand(k).t)}}

\* The buffer after the passes t = tmin..tmax, pass t calling
\* draw_pixel at pixel index A * t + Bs[m] for m = 1..Len(Bs) in turn, all
\* with one colour: each byte holds what the last write to it left.
WrappedSweep(buf, color, A, Bs, tmin, tmax) ==
    LET len == Len(buf)
        Writers(b) ==
            UNION {{<<t, m, ch>> : t \in PassesAt(A, Bs[m], b - ch, tmin, tmax)} :
                   m \in 1..Len(Bs),
                   ch \in {c \in 0..2 : b - c >= 0 /\ b - c + 2 < len}}
        Later(v, w) == BigLt(w[1], v[1]) \/ (w[1] = v[1] /\ w[2] < v[2])
        Last(b) == CHOOSE w \in Writers(b) : \A v \in Writers(b) : ~Later(v, w)
    IN  [k \in 1..len |->
            IF Writers(k - 1) = {} THEN buf[k] ELSE color[Last(k - 1)[3] + 1]]

\* --------------------------------------------- lines along the axes, grid
\* HorizontalLoop with the end of the range included.
RECURSIVE HorizontalLoopInclusive(_, _, _, _, _)
HorizontalLoopInclusive(cv, x, end, y, color) ==
    IF x > end THEN cv
    ELSE HorizontalLoopInclusive(draw_pixel(cv, AsU32(x), y, color), x + 1, end, y, color)

RECURSIVE HorizontalLoop(_, _, _, _, _)
HorizontalLoop(cv, x, end, y, color) ==
    IF x >= end THEN cv
    ELSE HorizontalLoop(draw_pixel(cv, AsU32(x), y, color), x + 1, end, y, color)

\* PixelCanvas::draw_horizontal_line, y being a u32.
draw_horizontal_line(cv, y, color) ==
    LET e == SubU32(AsU32(width), AsU32(margin))
    IN  IF cv.panicked THEN cv
        ELSE IF e.ovf /\ overflow_checks THEN Canvas(cv.buffer, TRUE)
        ELSE IF e.ovf
             THEN Canvas(WrappedSweep(cv.buffer, color, 1, <<U32ToInt(y) * width>>,
                                      Big(AsU32(margin)),
                                      Big(SubU32(e.val, AsU32(1)).val)), FALSE)
        ELSE HorizontalLoop(cv, margin, U32ToInt(e.val), y, color)

RECURSIVE VerticalLoop(_, _, _, _, _)
VerticalLoop(cv, y, end, x, color) ==
    IF y >= end THEN cv
    ELSE VerticalLoop(draw_pixel(cv, x, AsU32(y), color), y + 1, end, x, color)

\* PixelCanvas::draw_vertical_line, x being a u32.
draw_vertical_line(cv, x, color) ==
    LET e == SubU32(AsU32(height), AsU32(margin))
    IN  IF cv.panicked THEN cv
        ELSE IF e.ovf /\ overflow_checks THEN Canvas(cv.buffer, TRUE)
        ELSE IF e.ovf
             THEN Canvas(WrappedSweep(cv.buffer, color, width, <<U32ToInt(x)>>,
                                      Big(AsU32(margin)),
                                      Big(SubU32(e.val, AsU32(1)).val)), FALSE)
        ELSE VerticalLoop(cv, margin, U32ToInt(e.val), x, color)

\* The vertical lines of draw_grid at x, x + step, .. up to end inclusive.
RECURSIVE GridColumns(_, _, _, _, _)
GridColumns(cv, x, end, step, color) ==
    IF x > end THEN cv
    ELSE GridColumns(draw_vertical_line(cv, AsU32(x), color), x + step, end, step, color)

\* The horizontal lines of draw_grid at y, y + step, .. up to end inclusive.
RECURSIVE GridRows(_, _, _, _, _)
GridRows(cv, y, end, step, color) ==
    IF y > end THEN cv
    ELSE GridRows(draw_horizontal_line(cv, AsU32(y), color), y + step, end, step, color)

\* The number of the last pass of `(margin..=end).step_by(step)`, end wrapped.
LastPass(end, step) == BigDivSmall(BigSubSmall(Big(end), margin).val, step).q

\* The first loop of draw_grid.  step_by(0) panics in every build.  With the
\* range wrapped, pass k draws the vertical line at x = margin + k * step.
GridFirstLoop(cv, step, color) ==
    LET e == SubU32(AsU32(width), AsU32(margin))
    IN  IF cv.panicked THEN cv
        ELSE IF (e.ovf /\ overflow_checks) \/ step = 0 THEN Canvas(cv.buffer, TRUE)
        ELSE IF e.ovf
             THEN Canvas(WrappedSweep(cv.buffer, color, step,
                                      [i \in 1..(IF height - margin > margin
                                                 THEN height - 2 * margin ELSE 0) |->
                                          (margin + i - 1) * width + margin],
                                      <<0, 0, 0>>, LastPass(e.val, step)), FALSE)
        ELSE GridColumns(cv, margin, U32ToInt(e.val), step, color)

\* The second loop of draw_grid; with the range wrapped, pass k draws the
\* horizontal line at y = margin + k * step.
GridSecondLoop(cv, step, color) ==
    LET e == SubU32(AsU32(height), AsU32(margin))
    IN  IF cv.panicked THEN cv
        ELSE IF (e.ovf /\ overflow_checks) \/ step = 0 THEN Canvas(cv.buffer, TRUE)
        ELSE IF e.ovf
             THEN Canvas(WrappedSweep(cv.buffer, color, width * step,
                                      [i \in 1..(IF width - margin > margin
                                                 THEN width - 2 * margin ELSE 0) |->
                                          margin * width + margin + i - 1],
                                      <<0, 0, 0>>, LastPass(e.val, step)), FALSE)
        ELSE GridRows(cv, margin, U32ToInt(e.val), step, color)

\* Without overflow checks and with margin > width and margin > height both
\* loops of a vertical line and of the grid are wrapped: with a first step
\* that is not 0, draw_grid makes more than 2^62 calls of draw_pixel and does
\* not return in any practical time.  step_by(0) panics before the first pass.
GridRunsOn(grid_size) ==
    ~overflow_checks /\ margin > width /\ margin > height /\ grid_size[1] # 0

\* PixelCanvas::draw_grid, for a call that returns or panics.
draw_grid(cv, grid_size, color) ==
    GridSecondLoop(GridFirstLoop(cv, grid_size[1], color), grid_size[2], color)

\* ------------------------------------------------------------ draw_line
\* LineType: <<"Solid", 0, 0>>, <<"SolidThick", 0, 0>>, <<"Dashed", n, 0>>,
\* <<"Dotted", n, 0>>, <<"Squared", gap, side>>.
LineTypes ==
    {<<"Solid", 0, 0>>, <<"SolidThick", 0, 0>>}
    \cup {<<k, n, 0>> : k \in {"Dashed", "Dotted"}, n \in 0..MaxDash}
    \cup {<<"Squared", g, s>> : g \in {1, MaxDash}, s \in {1, MaxDash}}

Abs(i) == IF i < 0 THEN 0 - i ELSE i

\* The set-up of draw_line: dx, dy, sx, sy and the first err.
LineSetup(x1, y1, x2, y2) ==
    LET dx == Abs(x2 - x1)
        dy == 0 - Abs(y2 - y1)
    IN  [dx |-> dx, dy |-> dy,
         sx |-> IF x1 < x2 THEN 1 ELSE 0 - 1,
         sy |-> IF y1 < y2 THEN 1 ELSE 0 - 1,
         err |-> dx + dy]

\* One pass of the stepping code shared by the three loops: the cursor and
\* the error term after `let e2 = 2 * err; if e2 >= dy {..} if e2 <= dx {..}`.
LineStep(x, y, err, g) ==
    LET e2 == 2 * err
        stepx == e2 >= g.dy
        stepy == e2 <= g.dx
    IN  [x |-> IF stepx THEN x + g.sx ELSE x,
         y |-> IF stepy THEN y + g.sy ELSE y,
         err |-> err + (IF stepx THEN g.dy ELSE 0) + (IF stepy THEN g.dx ELSE 0)]

\* SolidLoop without the write of the final pixel.
RECURSIVE SolidLoopNoFinal(_, _, _, _, _, _, _, _)
SolidLoopNoFinal(cv, x, y, err, x2, y2, g, color) ==
    IF x # x2 \/ y # y2
    THEN LET n == LineStep(x, y, err, g)
         IN  SolidLoopNoFinal(draw_pixel(cv, AsU32(x), AsU32(y), color),
                              n.x, n.y, n.err, x2, y2, g, color)
    ELSE cv

\* The loop of LineType::Solid, from the cursor (x, y) on.
RECURSIVE SolidLoop(_, _, _, _, _, _, _, _)
SolidLoop(cv, x, y, err, x2, y2, g, color) ==
    IF x # x2 \/ y # y2
    THEN LET n == LineStep(x, y, err, g)
         IN  SolidLoop(draw_pixel(cv, AsU32(x), AsU32(y), color),
                       n.x, n.y, n.err, x2, y2, g, color)
    ELSE draw_pixel(cv, AsU32(x2), AsU32(y2), color)

\* The five pixel writes of one pass of the LineType::SolidThick loop.
ThickStripe(cv, x, y, color) ==
    LET a == draw_pixel(cv, AsU32(x), AsU32(y - 2), color)
        b == draw_pixel(a, AsU32(x), AsU32(y - 1), color)
        c == draw_pixel(b, AsU32(x), AsU32(y + 1), color)
        d == draw_pixel(c, AsU32(x), AsU32(y + 2), color)
    IN  draw_pixel(d, AsU32(x), AsU32(y), color)

\* SolidThickLoop with a full stripe at the final pixel too.
RECURSIVE SolidThickLoopStripeEnd(_, _, _, _, _, _, _, _)
SolidThickLoopStripeEnd(cv, x, y, err, x2, y2, g, color) ==
    IF x # x2 \/ y # y2
    THEN LET n == LineStep(x, y, err, g)
         IN  SolidThickLoopStripeEnd(ThickStripe(cv, x, y, color),
                                     n.x, n.y, n.err, x2, y2, g, color)
    ELSE ThickStripe(cv, x2, y2, color)

\* The loop of LineType::SolidThick; the final pixel is a single write.
RECURSIVE SolidThickLoop(_, _, _, _, _, _, _, _)
SolidThickLoop(cv, x, y, err, x2, y2, g, color) ==
    IF x # x2 \/ y # y2
    THEN LET n == LineStep(x, y, err, g)
         IN  SolidThickLoop(ThickStripe(cv, x, y, color),
                            n.x, n.y, n.err, x2, y2, g, color)
    ELSE draw_pixel(cv, AsU32(x2), AsU32(y2), color)

\* DashedLoop with the final pixel written whatever is_drawing holds.
RECURSIVE DashedLoopFinalAlways(_, _, _, _, _, _, _, _, _)
DashedLoopFinalAlways(cv, x, y, err, x2, y2, g, color, d) ==
    IF x # x2 \/ y # y2
    THEN LET n == LineStep(x, y, err, g)
             painted == IF d.is_drawing
                        THEN draw_pixel(cv, AsU32(x), AsU32(y), color) ELSE cv
             toggle == d.segment_length + 1 = d.dash_length
             d2 == [is_drawing |-> IF toggle THEN ~d.is_drawing ELSE d.is_drawing,
                    segment_length |-> IF toggle THEN 0 ELSE d.segment_length + 1,
                    dash_length |-> d.dash_length]
         IN  DashedLoopFinalAlways(painted, n.x, n.y, n.err, x2, y2, g, color, d2)
    ELSE draw_pixel(cv, AsU32(x2), AsU32(y2), color)

\* The loop of LineType::Dashed / Dotted; d holds is_drawing, segment_length
\* and dash_length.
RECURSIVE DashedLoop(_, _, _, _, _, _, _, _, _)
DashedLoop(cv, x, y, err, x2, y2, g, color, d) ==
    IF x # x2 \/ y # y2
    THEN LET n == LineStep(x, y, err, g)
             painted == IF d.is_drawing
                        THEN draw_pixel(cv, AsU32(x), AsU32(y), color) ELSE cv
             toggle == d.segment_length + 1 = d.dash_length
             d2 == [is_drawing |-> IF toggle THEN ~d.is_drawing ELSE d.is_drawing,
                    segment_length |-> IF toggle THEN 0 ELSE d.segment_length + 1,
                    dash_length |-> d.dash_length]
         IN  DashedLoop(painted, n.x, n.y, n.err, x2, y2, g, color, d2)
    ELSE IF d.is_drawing THEN draw_pixel(cv, AsU32(x2), AsU32(y2), color) ELSE cv

\* PixelCanvas::draw_line; the arm of LineType::Squared writes nothing.
draw_line(cv, x1, y1, x2, y2, color, line_type) ==
    LET g == LineSetup(x1, y1, x2, y2)
    IN  CASE line_type[1] = "Solid" ->
               SolidLoop(cv, x1, y1, g.err, x2, y2, g, color)
          [] line_type[1] = "SolidThick" ->
               SolidThickLoop(cv, x1, y1, g.err, x2, y2, g, color)
          [] line_type[1] \in {"Dashed", "Dotted"} ->
               DashedLoop(cv, x1, y1, g.err, x2, y2, g, color,
                          [is_drawing |-> TRUE, segment_length |-> 0,
                           dash_length |-> line_type[2]])
          [] OTHER -> cv

\* ------------------------------------------------------------- draw_text
\* PixelCanvas::draw_text copies the buffer into an image of width x height,
\* has imageproc's draw_text_mut stamp the text on it and keeps the image's
\* bytes as the new buffer.  What is stamped is the font's: a glyph is the
\* record of its advance w, of the height h that text_size measures for it
\* and of the offsets <<dx, dy>> its outline covers.  The fonts of the model
\* are bitmaps, every covered pixel covered fully, so that the weighted sum
\* of draw_text_mut leaves exactly the text colour there.
GlyphSpace == [w |-> 1, h |-> 0, cover |-> {}]
GlyphDot == [w |-> 1, h |-> 1, cover |-> {<<0, 0>>}]
GlyphBar == [w |-> 2, h |-> 2, cover |-> {<<0, 0>>, <<0, 1>>}]

\* The texts handed to draw_text and draw_text_vertical.
Texts == {<<>>, <<GlyphDot>>, <<GlyphBar, GlyphDot>>, <<GlyphSpace, GlyphDot, GlyphDot>>}

\* The pixels the glyphs of the text cover when it is laid out from (x, y):
\* each glyph starts where the advances of the glyphs before it end.
RECURSIVE TextCover(_, _, _)
TextCover(x, y, text) ==
    IF text = <<>> THEN {}
    ELSE {<<x + o[1], y + o[2]>> : o \in Head(text).cover}
         \cup TextCover(x + Head(text).w, y, Tail(text))

\* PixelCanvas::draw_text, x and y being small u32 values: draw_text_mut
\* writes the covered pixels (image_x, image_y) with 0 <= image_x < width and
\* 0 <= image_y < height and drops the others; the buffer keeps its length.
draw_text(cv, x, y, text, color) ==
    IF cv.panicked THEN cv
    ELSE Canvas([i \in DOMAIN cv.buffer |->
                    IF <<((i - 1) \div 3) % width, (i - 1) \div (3 * width)>>
                           \in TextCover(x, y, text)
                    THEN color[((i - 1) % 3) + 1] ELSE cv.buffer[i]],
                FALSE)

\* PixelCanvas::draw_text_vertical: one draw_text for each character, and
\* current_y += char_height + 5 after it.
RECURSIVE draw_text_vertical(_, _, _, _, _)
draw_text_vertical(cv, x, current_y, text, color) ==
    IF text = <<>> THEN cv
    ELSE draw_text_vertical(draw_text(cv, x, current_y, <<Head(text)>>, color),
                            x, current_y + Head(text).h + 5, Tail(text), color)

\* ------------------------------------------------------------- actions
Here == Canvas(buffer, FALSE)

Finish(cv, call) ==
    /\ buffer' = cv.buffer
    /\ panicked' = cv.panicked
    /\ last' = call
    /\ UNCHANGED <<width, height, background_color, margin, overflow_checks>>
    /\ UNCHANGED <<svg, graph, dataset, figure>>

\* A behaviour is a canvas as constructed, cleared or not, one drawing call
\* on it, and possibly a clear after it: the contracts checked here are
\* those of a single call.
CanCall ==
    /\ ~panicked
    /\ last.op = "new" \/ (last.op = "clear" /\ last.after = "new")

Clear ==
    /\ ~panicked
    /\ last.op # "clear"
    /\ Finish(clear(Here), Call("clear", <<>>, background_color, <<0, 1>>, NoStyle))

DrawPixel ==
    /\ CanCall
    /\ \E x \in 0..width, y \in 0..height, c \in Colors :
          Finish(draw_pixel(Here, AsU32(x), AsU32(y), c),
                 Call("draw_pixel", <<x, y>>, c, <<1, 1>>, NoStyle))

BlendPixel ==
    /\ CanCall
    /\ \E x \in 0..width, y \in 0..height, c \in Colors, a \in Alphas :
          Finish(blend_pixel(Here, AsU32(x), AsU32(y), c, a),
                 Call("blend_pixel", <<x, y>>, c, a, NoStyle))

DrawHorizontalLine ==
    /\ CanCall
    /\ \E y \in 0..height, c \in Colors :
          Finish(draw_horizontal_line(Here, AsU32(y), c),
                 Call("draw_horizontal_line", <<y>>, c, <<1, 1>>, NoStyle))

DrawVerticalLine ==
    /\ CanCall
    /\ \E x \in 0..width, c \in Colors :
          Finish(draw_vertical_line(Here, AsU32(x), c),
                 Call("draw_vertical_line", <<x>>, c, <<1, 1>>, NoStyle))

DrawGrid ==
    /\ CanCall
    /\ \E gx \in 0..MaxStep, gy \in 0..MaxStep, c \in Colors :
          /\ ~GridRunsOn(<<gx, gy>>)
          /\ Finish(draw_grid(Here, <<gx, gy>>, c),
                    Call("draw_grid", <<gx, gy>>, c, <<1, 1>>, NoStyle))

DrawText ==
    /\ CanCall
    /\ \E x \in 0..width, y \in 0..height, text \in Texts, c \in LineColors :
          Finish(draw_text(Here, x, y, text, c),
                 Call("draw_text", <<x, y, text>>, c, <<1, 1>>, NoStyle))

DrawTextVertical ==
    /\ CanCall
    /\ \E x \in 0..width, y \in 0..height, text \in Texts, c \in LineColors :
          Finish(draw_text_vertical(Here, x, y, text, c),
                 Call("draw_text_vertical", <<x, y, text>>, c, <<1, 1>>, NoStyle))

Next ==
    \/ Clear
    \/ DrawPixel
    \/ BlendPixel
    \/ DrawHorizontalLine
    \/ DrawVerticalLine
    \/ DrawGrid
    \/ DrawText
    \/ DrawTextVertical

Spec == Init /\ [][Next]_vars

\* ---- the specification of draw_line: a canvas as constructed, or cleared,
\* and then one draw_line call; the end points reach one pixel past every
\* edge of the canvas.
InitLine == Init /\ margin \in {0, MaxMargin} /\ background_color = <<255, 255, 255>>

DrawLine ==
    /\ CanCall
    /\ \E x1 \in (0 - 1)..width, y1 \in (0 - 1)..height,
          x2 \in (0 - 1)..width, y2 \in (0 - 1)..height,
          c \in LineColors, t \in LineTypes :
          Finish(draw_line(Here, x1, y1, x2, y2, c, t),
                 Call("draw_line", <<x1, y1, x2, y2>>, c, <<1, 1>>, t))

NextLine == (last.op = "new" /\ Clear) \/ DrawLine

SpecLine == InitLine /\ [][NextLine]_vars

\* ================================================================ SvgCanvas
\* src/src/figure/canvas/svgcanvas.rs.  The canvas is its Vec of fragments.
MaxElems == 3

\* A specification that has no PixelCanvas keeps one fixed canvas.
NoCanvas ==
    /\ width = 1 /\ height = 1 /\ margin = 0
    /\ background_color = <<255, 255, 255>>
    /\ overflow_checks = FALSE
    /\ buffer = new(1, 1)
    /\ panicked = FALSE
    /\ last = [op |-> "new", args |-> <<>>, color |-> background_color,
               alpha |-> <<0, 1>>, style |-> NoStyle, pre |-> <<>>,
               after |-> "none"]

\* ------------------------------------------------ f64 values of the SVG
\* The f64 values that SvgCanvas and the draw_svg of the figures compute
\* and print.  A value is NaN, an infinity, or the number
\* (a * 2^32 + b) / d with whole a and b and d > 0; neg is its sign bit,
\* which tells 0.0 from -0.0.  a is other than 0 only for a u32 that wrapped
\* (2^32 - k as f64 has a = 1, b = -k) and for what is computed from one.
\* The arithmetic is that of the numbers, with the rules of IEEE 754 for
\* NaN, the infinities and the signed zeros; a value that f64 rounds is
\* printed as the number it rounds, which to two decimals is the same text
\* unless the number lies half-way between two of them.  One more value is
\* FBig, 12 * 2^64: the sum of it and of a number below 2^14 rounds to it.
RECURSIVE FGcd(_, _)
FGcd(m, n) == IF n = 0 THEN m ELSE FGcd(n, m % n)

Fin(a, b, d, zneg) ==
    LET g0 == FGcd(FGcd(Abs(a), Abs(b)), d)
        g == IF g0 = 0 THEN 1 ELSE g0
    IN  [k |-> "fin", a |-> a \div g, b |-> b \div g, d |-> d \div g,
         neg |-> IF a # 0 THEN a < 0 ELSE IF b # 0 THEN b < 0 ELSE zneg]

\* The f64 n / d, and the f64 n.
Real(n, d) == Fin(0, n, d, FALSE)
Whole(n) == Real(n, 1)
Half(h) == Real(h, 2)

FNaN == [k |-> "nan", a |-> 0, b |-> 0, d |-> 1, neg |-> FALSE]
FBig == [k |-> "big", a |-> 0, b |-> 0, d |-> 1, neg |-> FALSE]
FInf(neg) == [k |-> "inf", a |-> 0, b |-> 0, d |-> 1, neg |-> neg]

\* `u as f64` for the u32 u.
U32AsF64(u) ==
    IF u[1] < Limb \div 2 THEN Whole(U32ToInt(u))
    ELSE Fin(1, (u[1] - Limb) * Limb + u[2], 1, FALSE)

FIsZero(x) == x.k = "fin" /\ x.a = 0 /\ x.b = 0

FNeg(x) ==
    IF x.k = "nan" THEN x
    ELSE [x EXCEPT !.a = 0 - x.a, !.b = 0 - x.b, !.neg = ~x.neg]

\* x + y: inf + -inf is NaN, and a sum that is zero is -0.0 only when both
\* operands are -0.0.
FAdd(x, y) ==
    IF x.k = "nan" \/ y.k = "nan" THEN FNaN
    ELSE IF x.k = "inf" THEN (IF y.k = "inf" /\ y.neg # x.neg THEN FNaN ELSE x)
    ELSE IF y.k = "inf" THEN y
    ELSE IF x.k = "big" \/ y.k = "big"
         THEN CASE x.k = "big" /\ y.k = "fin" /\ y.a = 0 -> x
                [] y.k = "big" /\ x.k = "fin" /\ x.a = 0 -> y
    ELSE Fin(x.a * y.d + y.a * x.d, x.b * y.d + y.b * x.d, x.d * y.d, x.neg /\ y.neg)

FSub(x, y) == FAdd(x, FNeg(y))

\* x * y: 0 * inf is NaN.  One of the factors at most is computed from a
\* wrapped u32.
FMul(x, y) ==
    IF x.k = "nan" \/ y.k = "nan" THEN FNaN
    ELSE IF x.k = "inf" \/ y.k = "inf"
         THEN (IF FIsZero(x) \/ FIsZero(y) THEN FNaN ELSE FInf(x.neg # y.neg))
    ELSE CASE x.a = 0 \/ y.a = 0 ->
            Fin(x.a * y.b + y.a * x.b, x.b * y.b, x.d * y.d, x.neg # y.neg)

\* x / y: 0 / 0 and inf / inf are NaN, and a number over 0 is an infinity.
\* The divisor is not computed from a wrapped u32.
FDiv(x, y) ==
    IF x.k = "nan" \/ y.k = "nan" THEN FNaN
    ELSE IF x.k = "inf" THEN (IF y.k = "inf" THEN FNaN ELSE FInf(x.neg # y.neg))
    ELSE IF y.k = "inf" THEN Fin(0, 0, 1, x.neg # y.neg)
    ELSE IF FIsZero(y) THEN (IF FIsZero(x) THEN FNaN ELSE FInf(x.neg # y.neg))
    ELSE CASE y.a = 0 ->
            LET s == IF y.b < 0 THEN 0 - 1 ELSE 1
            IN  Fin(s * x.a * y.d, s * x.b * y.d, x.d * Abs(y.b), x.neg # y.neg)

\* x < y: FALSE when either is NaN, and -0.0 is not below 0.0.
FLt(x, y) ==
    LET s == FSub(x, y)
    IN  s.k # "nan" /\ x.k # "nan" /\ y.k # "nan" /\ s.neg /\ ~FIsZero(s)

\* f64::min and f64::max: the other operand when one is NaN.
FMin(x, y) == IF x.k = "nan" THEN y ELSE IF y.k = "nan" THEN x ELSE IF FLt(y, x) THEN y ELSE x
FMax(x, y) == IF x.k = "nan" THEN y ELSE IF y.k = "nan" THEN x ELSE IF FLt(x, y) THEN y ELSE x

\* n in decimal, at least w digits wide.
RECURSIVE Pad(_, _)
Pad(n, w) == IF w <= 1 THEN ToString(n) ELSE Pad(n \div 10, w - 1) \o ToString(n % 10)

\* 2^32 in base 100.
TwoTo32 == <<42, 94, 96, 72, 96>>

\* The division by D of the number whose digits in base 100 are limbs (a
\* digit may be any whole number): the digits of the quotient and the
\* remainder.
RECURSIVE LongDiv(_, _, _, _)
LongDiv(limbs, D, r, qs) ==
    IF limbs = <<>> THEN <<qs, r>>
    ELSE LET c == r * 100 + Head(limbs)
         IN  LongDiv(Tail(limbs), D, c % D, Append(qs, c \div D))

\* The number with the digits qs in base 100, plus carry, in decimal: ""
\* for 0.
RECURSIVE Decimal(_, _)
Decimal(qs, carry) ==
    IF qs = <<>> THEN (IF carry = 0 THEN "" ELSE ToString(carry))
    ELSE LET n == qs[Len(qs)] + carry
             hi == Decimal(SubSeq(qs, 1, Len(qs) - 1), n \div 100)
         IN  IF hi = "" THEN (IF n % 100 = 0 THEN "" ELSE ToString(n % 100))
             ELSE hi \o Pad(n % 100, 2)

RECURSIVE IsPowerOfTwo(_)
IsPowerOfTwo(n) == n = 1 \/ (n % 2 = 0 /\ IsPowerOfTwo(n \div 2))

\* format!("{:.p}", v): the sign, then the digits of |v| rounded to p
\* decimals, a tie to the even digit.  A number half-way between two texts
\* is an f64 only when its denominator is a power of two; of another, the
\* f64 lies to one side, which the number does not tell.
FmtFixed(v, p) ==
    IF v.k = "nan" THEN "NaN"
    ELSE IF v.k = "inf" THEN (IF v.neg THEN "-inf" ELSE "inf")
    ELSE IF v.k = "big" THEN "221360928884514619392" \o (IF p = 0 THEN "" ELSE "." \o Pad(0, p))
    ELSE LET s == IF v.neg THEN 0 - 1 ELSE 1
             limbs == [i \in 1..5 |-> TwoTo32[i] * s * v.a + (IF i = 5 THEN s * v.b ELSE 0)]
             q == LongDiv(limbs, v.d, 0, <<>>)
             scaled == q[2] * (10 ^ p)
             f0 == scaled \div v.d
             rem == scaled % v.d
             f1 == IF 2 * rem > v.d THEN f0 + 1
                   ELSE IF 2 * rem < v.d THEN f0
                   ELSE (CASE IsPowerOfTwo(v.d) -> IF f0 % 2 = 1 THEN f0 + 1 ELSE f0)
             whole == Decimal(q[1], IF f1 = 10 ^ p THEN 1 ELSE 0)
         IN  (IF v.neg THEN "-" ELSE "") \o (IF whole = "" THEN "0" ELSE whole)
                \o (IF p = 0 THEN "" ELSE "." \o Pad(f1 % (10 ^ p), p))

Fmt2(v) == FmtFixed(v, 2)
Fmt1(v) == FmtFixed(v, 1)

\* format!("{}", v) for a v of at most three decimals: the shortest text
\* that reads back as v.  Of 12 * 2^64 it is the seventeen digits
\* 22136092888451462 and four zeros.
FmtDisplay(v) ==
    IF v.k = "big" THEN "221360928884514620000"
    ELSE IF v.k # "fin" THEN FmtFixed(v, 0)
    ELSE FmtFixed(v, CHOOSE p \in 0..3 :
                        /\ (v.b * (10 ^ p)) % v.d = 0
                        /\ \A r \in 0..(p - 1) : (v.b * (10 ^ r)) % v.d # 0)

\* The first element SvgCanvas::new stores.
SvgHeader(w, h) ==
    "<?xml version=\"1.0\" encoding=\"UTF-8\"?>\n<svg xmlns=\"http://www.w3.org/2000/svg\" viewBox=\"0 0 "
        \o ToString(w) \o " " \o ToString(h) \o "\">"

SvgLine(x1, y1, x2, y2, color, stroke_width) ==
    "<line x1=\"" \o Fmt2(x1) \o "\" y1=\"" \o Fmt2(y1) \o "\" x2=\"" \o Fmt2(x2)
        \o "\" y2=\"" \o Fmt2(y2) \o "\" stroke=\"" \o color
        \o "\" stroke-width=\"" \o Fmt2(stroke_width) \o "\"/>"

SvgRgb(color) ==
    "rgb(" \o ToString(color[1]) \o "," \o ToString(color[2]) \o "," \o ToString(color[3]) \o ")"

SvgRect(x, y, w, h, fill_color, stroke_color, stroke_width, opacity) ==
    "<rect x=\"" \o Fmt2(x) \o "\" y=\"" \o Fmt2(y) \o "\" width=\"" \o Fmt2(w)
        \o "\" height=\"" \o Fmt2(h) \o "\" fill=\"" \o fill_color \o "\" stroke=\""
        \o stroke_color \o "\" stroke-width=\"" \o Fmt2(stroke_width)
        \o "\" fill-opacity=\"" \o FmtDisplay(opacity) \o "\"/>"

SvgFontStyle(font_url, class_name, font_family) ==
    "<style>\n                @import url('" \o font_url \o "');\n                ."
        \o class_name \o " {\n                    font-family: '" \o font_family
        \o "', sans-serif;\n                }\n            </style>"

SvgCircle(cx, cy, r, color) ==
    "<circle cx=\"" \o Fmt2(cx) \o "\" cy=\"" \o Fmt2(cy) \o "\" r=\"" \o Fmt2(r)
        \o "\" fill=\"" \o color \o "\"/>"

SvgText(x, y, text, font_size, color) ==
    "<text x=\"" \o Fmt2(x) \o "\" y=\"" \o Fmt2(y) \o "\" font-size=\"" \o Fmt2(font_size)
        \o "\" text-anchor=\"middle\" fill=\"" \o color \o "\">" \o text \o "</text>"

\* SvgCanvas::draw_grid: the lines of both loops, in the order pushed.
SvgGridLines(x_min, x_max, y_min, y_max, x_ticks, y_ticks, color) ==
    LET x_step == FDiv(FSub(x_max, x_min), Whole(x_ticks))
        y_step == FDiv(FSub(y_max, y_min), Whole(y_ticks))
        x(i) == FAdd(x_min, FMul(Whole(i), x_step))
        y(i) == FAdd(y_min, FMul(Whole(i), y_step))
    IN  [i \in 1..(x_ticks + 1) |-> SvgLine(x(i - 1), y_min, x(i - 1), y_max, color, Half(1))]
        \o [i \in 1..(y_ticks + 1) |-> SvgLine(x_min, y(i - 1), x_max, y(i - 1), color, Half(1))]

RECURSIVE PushAll(_, _)
PushAll(text, elems) ==
    IF elems = <<>> THEN text ELSE PushAll(text \o Head(elems), Tail(elems))

RECURSIVE WritelnAll(_, _)
WritelnAll(text, elems) ==
    IF elems = <<>> THEN text ELSE WritelnAll(text \o Head(elems) \o "\n", Tail(elems))

\* SvgCanvas::get_svg_as_text: the elements, then the closing tag.
get_svg_as_text(elements) == PushAll("", elements) \o "</svg>"

\* SvgCanvas::save: what it writes to the file.
save(elements) == WritelnAll("", elements) \o "</svg>\n"

\* The fragments the drawing calls of the model push: one call of each
\* method for each choice of its arguments.
SvgColors == {"red", "black"}
SvgCalls ==
    {<<"draw_line", <<SvgLine(Half(0), Half(1), Half(2), Half(3), c, Half(1))>>>> :
        c \in SvgColors}
    \cup {<<"draw_line_rgb",
            <<SvgLine(Half(0), Half(0), Half(2), Half(2), SvgRgb(c), Half(2))>>>> : c \in Colors}
    \cup {<<"draw_rect",
            <<SvgRect(Half(0), Half(0), Half(4), Half(2), c, "black", Half(1), Half(o))>>>> :
             c \in SvgColors, o \in {1, 2}}
    \cup {<<"add_font_style", <<SvgFontStyle("fonts.css", "label", "Arial")>>>>}
    \cup {<<"draw_circle", <<SvgCircle(Half(2), Half(2), Half(r), "red")>>>> : r \in {1, 3}}
    \cup {<<"draw_text", <<SvgText(Half(1), Half(1), t, Half(24), "black")>>>> : t \in {"", "x"}}
    \cup {<<"draw_title", <<SvgText(Half(2), Half(0), "Title", Half(48), "black")>>>>}
    \cup {<<"draw_grid",
            SvgGridLines(Half(0), Half(4), Half(0), Half(2), xt, 1, "gray")>> : xt \in {1, 2}}

\* ============================================================= f64 values
\* The f64 values of the data: a whole number n, or one of NaN, +inf, -inf
\* and -0.0.
Num(n) == <<"num", n>>
NaN == <<"NaN", 0>>
Inf == <<"inf", 0>>
NegInf == <<"-inf", 0>>
NegZero == <<"-0.0", 0>>

\* Where a value that is not NaN stands in the order of f64: -0.0 = 0.0, and
\* the infinities lie beyond every number of the model.
F64Rank(a) ==
    CASE a[1] = "num" -> a[2]
      [] a[1] = "-0.0" -> 0
      [] a[1] = "inf" -> Limb
      [] a[1] = "-inf" -> 0 - Limb

\* a < b, a > b and a >= b on f64: FALSE when either is NaN.
F64Lt(a, b) == a # NaN /\ b # NaN /\ F64Rank(a) < F64Rank(b)
F64Gt(a, b) == F64Lt(b, a)
F64Ge(a, b) == a # NaN /\ b # NaN /\ F64Rank(a) >= F64Rank(b)

\* f64::abs and unary minus.
F64Abs(a) ==
    CASE a[1] = "num" -> Num(Abs(a[2]))
      [] a[1] = "-0.0" -> Num(0)
      [] a[1] \in {"inf", "-inf"} -> Inf
      [] OTHER -> NaN

F64Neg(a) ==
    CASE a = Num(0) -> NegZero
      [] a[1] = "num" -> Num(0 - a[2])
      [] a[1] = "-0.0" -> Num(0)
      [] a[1] = "inf" -> NegInf
      [] a[1] = "-inf" -> Inf
      [] OTHER -> NaN

\* ================================================================ datasets
\* src/src/figure/datasets: the five dataset types behind the Dataset trait.
MaxPoints == 3

\* The points handed to the datasets.
DataPoints ==
    {<<Num(1), Num(2)>>, <<Num(0 - 1), Num(3)>>, <<Num(4), Num(0 - 2)>>,
     <<Num(0), NegZero>>, <<NaN, Num(1)>>}

DatasetKinds == {"Bar", "Cartesian", "Scatter", "AreaChart", "LineGraph"}

\* add_point with a point the dataset already holds left out.
add_point_once(points, point) ==
    IF \E i \in 1..Len(points) : points[i] = point THEN points ELSE Append(points, point)

\* Dataset::add_point: self.points.push(point) (self.data for a BarDataset).
add_point(points, point) == Append(points, point)

\* Dataset::get_points: a clone of the Vec.
get_points(points) == points

\* dataset.points is the Vec of the dataset, dataset.added the points handed
\* to it so far and dataset.got the Vec the last get_points returned.
DatasetInit ==
    /\ NoCanvas
    /\ svg = NoObject /\ graph = NoObject /\ figure = NoObject
    /\ \E k \in DatasetKinds :
          dataset = [op |-> "new", kind |-> k, points |-> <<>>, added |-> <<>>, got |-> <<>>]

DatasetAddPoint ==
    /\ dataset.op # "none"
    /\ Len(dataset.added) < MaxPoints
    /\ \E p \in DataPoints :
          dataset' = [dataset EXCEPT !.op = "add_point",
                                     !.points = add_point(dataset.points, p),
                                     !.added = Append(dataset.added, p),
                                     !.got = <<>>]
    /\ UNCHANGED <<canvasVars, svg, graph, figure>>

\* BarDataset::add_data(x, y): self.data.push((x, y)).
BarAddData ==
    /\ dataset.op # "none" /\ dataset.kind = "Bar"
    /\ Len(dataset.added) < MaxPoints
    /\ \E p \in DataPoints :
          dataset' = [dataset EXCEPT !.op = "add_data",
                                     !.points = Append(dataset.points, <<p[1], p[2]>>),
                                     !.added = Append(dataset.added, p),
                                     !.got = <<>>]
    /\ UNCHANGED <<canvasVars, svg, graph, figure>>

DatasetGetPoints ==
    /\ dataset.op \notin {"none", "get_points"}
    /\ dataset' = [dataset EXCEPT !.op = "get_points", !.got = get_points(dataset.points)]
    /\ UNCHANGED <<canvasVars, svg, graph, figure>>

DatasetNext == DatasetAddPoint \/ BarAddData \/ DatasetGetPoints

SpecDataset == DatasetInit /\ [][DatasetNext]_vars

\* ========================================================== Quadrant1Graph
\* src/src/figure/figuretypes/quadrant1graph.rs.
MaxDatasets == 2

\* The colour, label and line type of the datasets handed to add_dataset.
DatasetStyles ==
    {[color |-> <<255, 0, 0>>, label |-> "Dataset 1", line_type |-> <<"Solid", 0, 0>>],
     [color |-> <<0, 128, 255>>, label |-> "Temperature", line_type |-> <<"Dashed", 2, 0>>]}

\* The Vecs of at most n points.
PointVecs(n) == UNION {[1..k -> DataPoints] : k \in 0..n}

CartesianDataset(points, style) ==
    [points |-> points, color |-> style.color, label |-> style.label,
     line_type |-> style.line_type]

\* The filter with the test on y left out.
RECURSIVE FilterXOnly(_)
FilterXOnly(points) ==
    IF points = <<>> THEN <<>>
    ELSE IF F64Ge(Head(points)[1], Num(0))
         THEN <<Head(points)>> \o FilterXOnly(Tail(points))
         ELSE FilterXOnly(Tail(points))

\* .into_iter().filter(|&(x, y)| x >= 0.0 && y >= 0.0).collect()
RECURSIVE FilterFirstQuadrant(_)
FilterFirstQuadrant(points) ==
    IF points = <<>> THEN <<>>
    ELSE IF F64Ge(Head(points)[1], Num(0)) /\ F64Ge(Head(points)[2], Num(0))
         THEN <<Head(points)>> \o FilterFirstQuadrant(Tail(points))
         ELSE FilterFirstQuadrant(Tail(points))

\* The first loop of update_range over the points of one dataset; r is the
\* range [x_min, x_max, y_min, y_max] so far.
RECURSIVE RangeOverPoints(_, _)
RangeOverPoints(r, points) ==
    IF points = <<>> THEN r
    ELSE LET x == Head(points)[1]
             y == Head(points)[2]
         IN  RangeOverPoints(
                 [x_min |-> IF F64Lt(x, r.x_min) THEN x ELSE r.x_min,
                  x_max |-> IF F64Gt(x, r.x_max) THEN x ELSE r.x_max,
                  y_min |-> IF F64Lt(y, r.y_min) THEN y ELSE r.y_min,
                  y_max |-> IF F64Gt(y, r.y_max) THEN y ELSE r.y_max],
                 Tail(points))

RECURSIVE RangeOverDatasets(_, _)
RangeOverDatasets(r, datasets) ==
    IF datasets = <<>> THEN r
    ELSE RangeOverDatasets(RangeOverPoints(r, Head(datasets).points), Tail(datasets))

\* Quadrant1Graph::update_range: the range after the loops, made symmetric
\* about the origin unless a dataset is empty.
update_range(r, datasets) ==
    LET s == RangeOverDatasets(r, datasets)
        is_empty == datasets = <<>> \/ \E i \in 1..Len(datasets) : datasets[i].points = <<>>
        abs_x_min == F64Abs(s.x_min)
        abs_x_max == F64Abs(s.x_max)
        abs_y_min == F64Abs(s.y_min)
        abs_y_max == F64Abs(s.y_max)
    IN  IF is_empty THEN s
        ELSE [x_min |-> IF F64Gt(abs_x_min, abs_x_max) THEN s.x_min ELSE F64Neg(abs_x_max),
              x_max |-> IF F64Gt(abs_x_min, abs_x_max) THEN abs_x_min ELSE s.x_max,
              y_min |-> IF F64Gt(abs_y_min, abs_y_max) THEN s.y_min ELSE F64Neg(abs_y_max),
              y_max |-> IF F64Gt(abs_y_min, abs_y_max) THEN abs_y_min ELSE s.y_max]

\* Quadrant1Graph::add_dataset.
add_dataset(g, d) ==
    LET filtered_dataset ==
            [points |-> FilterFirstQuadrant(d.points), color |-> d.color,
             label |-> d.label, line_type |-> d.line_type]
        datasets == Append(g.datasets, filtered_dataset)
    IN  [g EXCEPT !.datasets = datasets, !.range = update_range(g.range, datasets)]

\* LineGraph::update_range: the same statements as Quadrant1Graph's.
LineGraph_update_range(r, datasets) ==
    LET s == RangeOverDatasets(r, datasets)
        is_empty == datasets = <<>> \/ \E i \in 1..Len(datasets) : datasets[i].points = <<>>
        abs_x_min == F64Abs(s.x_min)
        abs_x_max == F64Abs(s.x_max)
        abs_y_min == F64Abs(s.y_min)
        abs_y_max == F64Abs(s.y_max)
    IN  IF is_empty THEN s
        ELSE [x_min |-> IF F64Gt(abs_x_min, abs_x_max) THEN s.x_min ELSE F64Neg(abs_x_max),
              x_max |-> IF F64Gt(abs_x_min, abs_x_max) THEN abs_x_min ELSE s.x_max,
              y_min |-> IF F64Gt(abs_y_min, abs_y_max) THEN s.y_min ELSE F64Neg(abs_y_max),
              y_max |-> IF F64Gt(abs_y_min, abs_y_max) THEN abs_y_min ELSE s.y_max]

\* LineGraph::add_dataset: the dataset is stored as handed in.
LineGraph_add_dataset(g, d) ==
    LET datasets == Append(g.datasets, d)
    IN  [g EXCEPT !.datasets = datasets, !.range = LineGraph_update_range(g.range, datasets)]

RECURSIVE PointCount(_)
PointCount(datasets) ==
    IF datasets = <<>> THEN 0 ELSE Len(Head(datasets).points) + PointCount(Tail(datasets))

\* graph.datasets and graph.range are the fields of the graph, a
\* Quadrant1Graph or a LineGraph; graph.passed is the datasets handed to
\* add_dataset so far.
GraphInit ==
    /\ NoCanvas
    /\ svg = NoObject /\ dataset = NoObject /\ figure = NoObject
    /\ \E k \in {"Quadrant1Graph", "LineGraph"} :
          graph = [op |-> "new", kind |-> k, datasets |-> <<>>, passed |-> <<>>,
                   range |-> [x_min |-> Inf, x_max |-> NegInf,
                              y_min |-> Inf, y_max |-> NegInf]]

GraphAddDataset ==
    /\ graph.op # "none"
    /\ Len(graph.passed) < MaxDatasets
    /\ \E points \in PointVecs(MaxPoints - PointCount(graph.passed)), style \in DatasetStyles :
          LET d == CartesianDataset(points, style)
              g == IF graph.kind = "Quadrant1Graph" THEN add_dataset(graph, d)
                   ELSE LineGraph_add_dataset(graph, d)
          IN  graph' = [g EXCEPT !.op = "add_dataset", !.passed = Append(graph.passed, d)]
    /\ UNCHANGED <<canvasVars, svg, dataset, figure>>

GraphNext == GraphAddDataset

SpecGraph == GraphInit /\ [][GraphNext]_vars

\* ================================================== AreaChart::draw_area
\* src/src/figure/figuretypes/areachart.rs.  The points and the scales of
\* the model are whole numbers, on which the f64 products are exact.
AreaPoints == (0..2) \X ((0 - 1)..2)

AreaPointVecs == UNION {[1..k -> AreaPoints] : k \in 0..MaxPoints}

\* points.sort_by(|a, b| a.0.partial_cmp(&b.0)..): a stable sort on x.
RECURSIVE InsertByX(_, _)
InsertByX(sorted, p) ==
    IF sorted = <<>> THEN <<p>>
    ELSE IF Head(sorted)[1] <= p[1] THEN <<Head(sorted)>> \o InsertByX(Tail(sorted), p)
         ELSE <<p>> \o sorted

RECURSIVE SortByX(_)
SortByX(points) ==
    IF points = <<>> THEN <<>>
    ELSE InsertByX(SortByX(SubSeq(points, 1, Len(points) - 1)), points[Len(points)])

\* `v as i32` for the f64 v = num / den, den > 0: truncation towards zero.
F64AsI32(num, den) == IF num >= 0 THEN num \div den ELSE 0 - ((0 - num) \div den)

\* interpolated_y.  With x2 = x1 the f64 quotient is 0.0 / 0.0 = NaN, and
\* NaN as i32 is 0.
InterpolatedY(x, x1, y1, x2, y2) ==
    IF x2 = x1 THEN y1 + 0
    ELSE y1 + F64AsI32((x - x1) * (y2 - y1), Abs(x2 - x1))

\* for y in interpolated_y..=origin_y { canvas.blend_pixel(..) }
RECURSIVE AreaColumn(_, _, _, _, _, _)
AreaColumn(cv, x, y, origin_y, color, a) ==
    IF y > origin_y THEN cv
    ELSE AreaColumn(blend_pixel(cv, AsU32(x), AsU32(y), color, a), x, y + 1, origin_y, color, a)

\* for x in x1.min(x2)..=x1.max(x2) { .. }
RECURSIVE AreaSegment(_, _, _, _, _, _, _, _, _, _)
AreaSegment(cv, x, end, x1, y1, x2, y2, origin_y, color, a) ==
    IF x > end THEN cv
    ELSE AreaSegment(AreaColumn(cv, x, InterpolatedY(x, x1, y1, x2, y2), origin_y, color, a),
                     x + 1, end, x1, y1, x2, y2, origin_y, color, a)

\* for window in points.windows(2) { .. }
RECURSIVE AreaWindows(_, _, _, _, _, _, _, _)
AreaWindows(cv, points, origin_x, origin_y, scale_x, scale_y, color, a) ==
    IF Len(points) < 2 THEN cv
    ELSE LET x1 == origin_x + points[1][1] * scale_x
             y1 == origin_y - points[1][2] * scale_y
             x2 == origin_x + points[2][1] * scale_x
             y2 == origin_y - points[2][2] * scale_y
             lo == IF x1 < x2 THEN x1 ELSE x2
             hi == IF x1 < x2 THEN x2 ELSE x1
         IN  AreaWindows(AreaSegment(cv, lo, hi, x1, y1, x2, y2, origin_y, color, a),
                         Tail(points), origin_x, origin_y, scale_x, scale_y, color, a)

\* AreaChart::draw_area.
draw_area(cv, points, origin_x, origin_y, scale_x, scale_y, color, a) ==
    AreaWindows(cv, SortByX(points), origin_x, origin_y, scale_x, scale_y, color, a)

\* Whether the windows of draw_area over the sorted points execute a division
\* by an (x2 - x1).abs() that is zero: the run reaches a window whose two
\* points lie in one column, no blend_pixel of a window before it having
\* panicked.
RECURSIVE DividesByZero(_, _, _, _, _, _, _, _)
DividesByZero(cv, points, origin_x, origin_y, scale_x, scale_y, color, a) ==
    /\ Len(points) >= 2
    /\ ~cv.panicked
    /\ LET x1 == origin_x + points[1][1] * scale_x
           y1 == origin_y - points[1][2] * scale_y
           x2 == origin_x + points[2][1] * scale_x
           y2 == origin_y - points[2][2] * scale_y
           lo == IF x1 < x2 THEN x1 ELSE x2
           hi == IF x1 < x2 THEN x2 ELSE x1
       IN  \/ x1 = x2
           \/ DividesByZero(AreaSegment(cv, lo, hi, x1, y1, x2, y2, origin_y, color, a),
                            Tail(points), origin_x, origin_y, scale_x, scale_y, color, a)

\* The specification of draw_area: a canvas with no margin, as constructed
\* or cleared, and one draw_area call with the baseline on one of its last
\* two rows.
InitArea ==
    /\ Init
    /\ margin = 0 /\ background_color = <<255, 255, 255>>
    /\ width >= MaxW - 1 /\ height = MaxH

DrawArea ==
    /\ CanCall
    /\ \E points \in AreaPointVecs, scale_x \in {1, 2}, a \in {<<1, 2>>, <<1, 1>>},
          origin_y \in {height - 2, height - 1} :
          LET cv == draw_area(Here, points, 0, origin_y, scale_x, 1, <<50, 150, 250>>, a)
          IN  /\ buffer' = cv.buffer
              /\ panicked' = cv.panicked
              /\ last' = [op |-> "draw_area",
                          args |-> <<points, 0, origin_y, scale_x, 1>>,
                          color |-> <<50, 150, 250>>, alpha |-> a, style |-> NoStyle,
                          pre |-> buffer, after |-> last.op,
                          zero_division |->
                              DividesByZero(Here, SortByX(points), 0, origin_y, scale_x, 1,
                                            <<50, 150, 250>>, a)]
    /\ UNCHANGED <<width, height, background_color, margin, overflow_checks>>
    /\ UNCHANGED <<svg, graph, dataset, figure>>

NextArea == (last.op = "new" /\ Clear) \/ DrawArea

SpecArea == InitArea /\ [][NextArea]_vars

\* ========================================================= Drawer::draw
\* src/src/figure/drawers: the draw of a ScatterGraph, of a Quadrant1Graph
\* and of a Histogram, from its first statement to the statement at which
\* it panics, for the figures on which it does: a figure with the label
\* font unset, and a histogram of fewer than two bins.  The title of the
\* figure is the empty string, which draw_text stamps no pixel for, and a
\* font that is set is a font file that loads.
FigurePoints ==
    {<<Num(0), Num(0)>>, <<Num(1), Num(2)>>, <<Num(0 - 1), Num(3)>>, <<NegZero, Num(0)>>}

FigurePointVecs == UNION {[1..k -> FigurePoints] : k \in 0..MaxPoints}

\* cfg.num_grid_horizontal and cfg.num_grid_vertical.
GridConfigs == {<<1, 1>>, <<2, 1>>}

\* cfg.color_grid of FigureConfig::default().
ColorGrid == <<200, 200, 200>>

\* f64::min and f64::max, as the set of the values the call may return: the
\* other operand when one is NaN, and for 0.0 and -0.0, which compare equal,
\* either operand, as the build compiles the call.
F64Min(a, b) ==
    IF a = NaN THEN {b} ELSE IF b = NaN THEN {a}
    ELSE IF F64Lt(b, a) THEN {b} ELSE IF F64Lt(a, b) THEN {a} ELSE {a, b}

F64Max(a, b) ==
    IF a = NaN THEN {b} ELSE IF b = NaN THEN {a}
    ELSE IF F64Gt(b, a) THEN {b} ELSE IF F64Gt(a, b) THEN {a} ELSE {a, b}

\* a - b on f64.
F64Sub(a, b) ==
    CASE a = NaN \/ b = NaN -> NaN
      [] a[1] \in {"inf", "-inf"} -> IF b[1] = a[1] THEN NaN ELSE a
      [] b[1] = "inf" -> NegInf
      [] b[1] = "-inf" -> Inf
      [] a = NegZero /\ b = Num(0) -> NegZero
      [] OTHER -> Num(F64Rank(a) - F64Rank(b))

\* The fold of draw over the x (c = 1) or y (c = 2) of the points, from the
\* pairs <<min, max>> it may start with: the pairs it may end with.
RECURSIVE FoldLimits(_, _, _)
FoldLimits(accs, points, c) ==
    IF points = <<>> THEN accs
    ELSE FoldLimits(UNION {F64Min(acc[1], Head(points)[c]) \X F64Max(acc[2], Head(points)[c]) :
                              acc \in accs},
                    Tail(points), c)

\* The limits of ScatterGraph::draw on one axis: the fold from
\* (INFINITY, NEG_INFINITY), then min.min(0.0).  The pairs <<min, max>> the
\* draw may compute.
ScatterLimits(points, c) ==
    UNION {F64Min(f[1], Num(0)) \X {f[2]} : f \in FoldLimits({<<Inf, NegInf>>}, points, c)}

\* The limits of Quadrant1Graph::draw on one axis: the fold from (0.0, 0.0).
Quadrant1Limits(points, c) ==
    UNION {F64Min(f[1], Num(0)) \X {f[2]} : f \in FoldLimits({<<Num(0), Num(0)>>}, points, c)}

\* The limits the draw of the figure f may compute on one axis.
FigureLimits(f, c) ==
    IF f.kind = "ScatterGraph" THEN ScatterLimits(f.points, c)
    ELSE Quadrant1Limits(f.points, c)

\* `extent - 2 * margin` in u32.
InsideMargins(extent) ==
    LET m == MulU32(AsU32(margin), 2)
        s == SubU32(AsU32(extent), m.val)
    IN  [val |-> s.val, ovf |-> m.ovf \/ s.ovf]

\* `n as f64 / range` for the u32 n: the f64 quotient num / den when it is
\* finite (num = 0 and den < 0 is -0.0), else which of inf, -inf and NaN.
Scale(n, range) ==
    CASE range = NaN -> [class |-> "NaN", num |-> n, den |-> 0]
      [] range[1] = "inf" -> [class |-> "finite", num |-> <<0, 0>>, den |-> 1]
      [] range[1] = "-inf" -> [class |-> "finite", num |-> <<0, 0>>, den |-> 0 - 1]
      [] F64Rank(range) = 0 ->
            [class |-> IF n = <<0, 0>> THEN "NaN"
                       ELSE IF range = NegZero THEN "-inf" ELSE "inf",
             num |-> n, den |-> 0]
      [] OTHER -> [class |-> "finite", num |-> n, den |-> range[2]]

\* No scale: draw panicked before it computed one.
NoScale == [class |-> "none", num |-> <<0, 0>>, den |-> 0]

\* Drawer::draw_title with the empty title: the expect on font_title, and no
\* pixel stamped.
draw_title(cv, font_title) ==
    IF cv.panicked THEN cv ELSE Canvas(cv.buffer, ~font_title)

\* Drawer::draw_label: the expect on font_label.
draw_label(cv, font_label) ==
    IF cv.panicked THEN cv ELSE Canvas(cv.buffer, ~font_label)

\* Drawer::draw_grid: the canvas's draw_grid with
\* [cfg.num_grid_horizontal, cfg.num_grid_vertical] as its grid_size.
Drawer_draw_grid(cv, grid) == draw_grid(cv, <<grid[1], grid[2]>>, ColorGrid)

\* The draw of a ScatterGraph or Quadrant1Graph whose label font is unset,
\* up to its first draw_label: clear, draw_title, the limits and the scales,
\* draw_grid, the origin and draw_label.  The result is the canvas at the
\* panic and the scales computed on the way, xl and yl being the limits
\* <<x_min, x_max>> and <<y_min, y_max>> it computed.
draw_graph(cv, f, xl, yl) ==
    LET titled == draw_title(clear(cv), f.font_title)
        nx == InsideMargins(width)
        ny == InsideMargins(height)
    IN  IF titled.panicked THEN [canvas |-> titled, scale_x |-> NoScale, scale_y |-> NoScale]
        ELSE IF overflow_checks /\ nx.ovf
             THEN [canvas |-> Canvas(titled.buffer, TRUE),
                   scale_x |-> NoScale, scale_y |-> NoScale]
        ELSE IF overflow_checks /\ ny.ovf
             THEN [canvas |-> Canvas(titled.buffer, TRUE),
                   scale_x |-> Scale(nx.val, F64Sub(xl[2], xl[1])), scale_y |-> NoScale]
        ELSE [canvas |-> Canvas(Drawer_draw_grid(titled, f.grid).buffer, TRUE),
              scale_x |-> Scale(nx.val, F64Sub(xl[2], xl[1])),
              scale_y |-> Scale(ny.val, F64Sub(yl[2], yl[1]))]

\* Histogram::draw for a histogram of fewer than two bins that holds no
\* data: clear, draw_title, the scales over y_max = 0.0, draw_grid, and the
\* index bin_data[0] or bin_data[1] that is out of range.
draw_histogram(cv, f) ==
    LET titled == draw_title(clear(cv), f.font_title)
        nx == InsideMargins(width)
        ny == InsideMargins(height)
    IN  IF titled.panicked THEN [canvas |-> titled, scale_x |-> NoScale, scale_y |-> NoScale]
        ELSE IF overflow_checks /\ nx.ovf
             THEN [canvas |-> Canvas(titled.buffer, TRUE),
                   scale_x |-> NoScale, scale_y |-> NoScale]
        ELSE IF overflow_checks /\ ny.ovf
             THEN [canvas |-> Canvas(titled.buffer, TRUE),
                   scale_x |-> Scale(nx.val, Num(f.bins)), scale_y |-> NoScale]
        ELSE [canvas |-> Canvas(Drawer_draw_grid(titled, f.grid).buffer, TRUE),
              scale_x |-> Scale(nx.val, Num(f.bins)),
              scale_y |-> Scale(ny.val, Num(0))]

\* The figures of the model.  font_title and font_label are TRUE for a font
\* that is set.  The points of a Quadrant1Graph are points add_dataset keeps.
Figures ==
    {[op |-> "new", kind |-> k, font_title |-> t, font_label |-> FALSE, bins |-> 0,
      points |-> p, grid |-> g, scale_x |-> NoScale, scale_y |-> NoScale] :
        k \in {"ScatterGraph"}, t \in BOOLEAN,
        p \in FigurePointVecs, g \in GridConfigs}
    \cup
    {[op |-> "new", kind |-> "Quadrant1Graph", font_title |-> t, font_label |-> FALSE,
      bins |-> 0, points |-> p, grid |-> g, scale_x |-> NoScale, scale_y |-> NoScale] :
        t \in BOOLEAN, p \in {q \in FigurePointVecs : FilterFirstQuadrant(q) = q},
        g \in GridConfigs}
    \cup
    {[op |-> "new", kind |-> "Histogram", font_title |-> t, font_label |-> l, bins |-> b,
      points |-> <<>>, grid |-> g, scale_x |-> NoScale, scale_y |-> NoScale] :
        t \in BOOLEAN, l \in BOOLEAN, b \in 0..1, g \in GridConfigs}

InitFigure ==
    /\ width \in 1..MaxW
    /\ height \in 1..MaxH
    /\ background_color = <<255, 255, 255>>
    /\ margin \in 0..MaxMargin
    /\ overflow_checks \in BOOLEAN
    /\ buffer = new(width, height)
    /\ panicked = FALSE
    /\ last = [op |-> "new", args |-> <<>>, color |-> background_color,
               alpha |-> <<0, 1>>, style |-> NoStyle, pre |-> <<>>,
               after |-> "none"]
    /\ svg = NoObject /\ graph = NoObject /\ dataset = NoObject
    /\ figure \in Figures

FinishDraw(d) ==
    /\ buffer' = d.canvas.buffer
    /\ panicked' = d.canvas.panicked
    /\ last' = Call("draw", <<>>, ColorGrid, <<1, 1>>, NoStyle)
    /\ figure' = [figure EXCEPT !.op = "draw", !.scale_x = d.scale_x, !.scale_y = d.scale_y]
    /\ UNCHANGED <<width, height, background_color, margin, overflow_checks>>
    /\ UNCHANGED <<svg, graph, dataset>>

\* Whether the draw of f reaches a draw_grid that runs on: draw_title comes
\* first, and with the title font unset the draw ends there.
DrawRunsOn(f) == f.font_title /\ GridRunsOn(f.grid)

DrawGraph ==
    /\ CanCall /\ ~DrawRunsOn(figure)
    /\ figure.op = "new" /\ figure.kind \in {"ScatterGraph", "Quadrant1Graph"}
    /\ \E xl \in FigureLimits(figure, 1), yl \in FigureLimits(figure, 2) :
          FinishDraw(draw_graph(Here, figure, xl, yl))

DrawHistogram ==
    /\ CanCall /\ ~DrawRunsOn(figure)
    /\ figure.op = "new" /\ figure.kind = "Histogram"
    /\ FinishDraw(draw_histogram(Here, figure))

NextFigure == (last.op = "new" /\ Clear) \/ DrawGraph \/ DrawHistogram

SpecFigure == InitFigure /\ [][NextFigure]_vars

\* ================================================================ Histogram
\* src/src/figure/figuretypes/histogram.rs.  The values added are whole
\* numbers and the bin count is 0 or a power of two, so that max - min, the
\* bin width (max - min) / bins and the floor of (value - min) / bin_width
\* are exact in f64.  A bin width is the record [class, num, den]: the
\* number num / den, or the infinity or NaN a division by 0.0 gives.
MaxData == 3

HistogramBins == {0, 1, 2, 4}
HistogramValues == {0, 1, 2, 3}

\* (self.max - self.min) / self.bins as f64, both limits being numbers.
BinWidth(min, max, bins) ==
    LET d == F64Rank(max) - F64Rank(min)
    IN  IF bins = 0 THEN [class |-> IF d = 0 THEN "NaN" ELSE "inf", num |-> d, den |-> 0]
        ELSE [class |-> "finite", num |-> d, den |-> bins]

\* ((value - self.min) / self.bin_width).floor() as usize, for bin_width > 0.0.
BinIndex(value, min, bw) ==
    IF bw.class = "inf" THEN 0
    ELSE ((value - F64Rank(min)) * bw.den) \div bw.num

\* Histogram::new.
NewHistogram(bins) ==
    [op |-> "new", kind |-> "Histogram", bins |-> bins, data |-> <<>>,
     min |-> Inf, max |-> NegInf,
     bin_counts |-> [i \in 1..bins |-> 0],
     bin_width |-> [class |-> "finite", num |-> 0, den |-> 1],
     result |-> <<>>]

\* Histogram::add_data.
add_data(h, value) ==
    LET min == IF F64Lt(Num(value), h.min) THEN Num(value) ELSE h.min
        max == IF F64Gt(Num(value), h.max) THEN Num(value) ELSE h.max
        bw == BinWidth(min, max, h.bins)
        bin_index == BinIndex(value, min, bw)
    IN  [h EXCEPT !.op = "add_data", !.data = Append(h.data, value),
                  !.min = min, !.max = max, !.bin_width = bw,
                  !.bin_counts =
                      IF (bw.class = "inf" \/ (bw.class = "finite" /\ bw.num > 0))
                         /\ bin_index < h.bins
                      THEN [h.bin_counts EXCEPT ![bin_index + 1] = @ + 1]
                      ELSE h.bin_counts]

\* Histogram::add_data_vec.
RECURSIVE add_data_vec(_, _)
add_data_vec(h, values) ==
    IF values = <<>> THEN [h EXCEPT !.op = "add_data_vec"]
    ELSE add_data_vec(add_data(h, Head(values)), Tail(values))

\* self.min + i as f64 * self.bin_width, as the pair <<numerator,
\* denominator>>, or the infinity that the min of an empty histogram is.
BinStart(h, i) ==
    IF h.min = Inf THEN Inf
    ELSE IF h.bin_width.den = 0 THEN NaN
    ELSE <<F64Rank(h.min) * h.bin_width.den + i * h.bin_width.num, h.bin_width.den>>

\* Histogram::calculate_bins.
calculate_bins(h) == [i \in 1..Len(h.bin_counts) |-> <<BinStart(h, i - 1), h.bin_counts[i]>>]

InitHistogram ==
    /\ NoCanvas
    /\ svg = NoObject /\ graph = NoObject /\ dataset = NoObject
    /\ figure \in {NewHistogram(b) : b \in HistogramBins}

HistogramAddData ==
    /\ Len(figure.data) < MaxData
    /\ \E v \in HistogramValues : figure' = [add_data(figure, v) EXCEPT !.result = <<>>]
    /\ UNCHANGED <<canvasVars, svg, graph, dataset>>

HistogramAddDataVec ==
    /\ Len(figure.data) + 2 <= MaxData
    /\ \E v \in HistogramValues, w \in HistogramValues :
          figure' = [add_data_vec(figure, <<v, w>>) EXCEPT !.result = <<>>]
    /\ UNCHANGED <<canvasVars, svg, graph, dataset>>

HistogramCalculateBins ==
    /\ figure.op # "calculate_bins"
    /\ figure' = [figure EXCEPT !.op = "calculate_bins", !.result = calculate_bins(figure)]
    /\ UNCHANGED <<canvasVars, svg, graph, dataset>>

NextHistogram == HistogramAddData \/ HistogramAddDataVec \/ HistogramCalculateBins

SpecHistogram == InitHistogram /\ [][NextHistogram]_vars

\* =============================================== ScatterGraph: data to pixel
\* src/src/figure/drawers/drawerscattergraph.rs (draw) and
\* src/src/figure/display/hoverscatterchart.rs (to_canvas_coordinates): the
\* two mappings of a data point to a pixel, as functions of the points and of
\* the width, height and margin of the canvas they are handed.  The points
\* are whole numbers and each axis range divides the extent between the
\* margins, so that the scales are whole numbers and every f64 product below
\* is exact; the ranges are not zero.
ScatterPoints == {<<Num(x), Num(y)>> : x \in {0 - 2, 0, 2}, y \in {0 - 1, 0, 1}}

ScatterPointVecs == UNION {[1..k -> ScatterPoints] : k \in 1..(MaxPoints - 1)}

\* The width, height and margin of the canvases handed to draw and to hover.
ScatterCanvases ==
    {[width |-> 2 * m + n, height |-> 2 * m + 4, margin |-> m] : n \in {4, 8}, m \in {0, 10}}

\* `v as u32` for the f64 v = num / den >= 0, den > 0.
F64AsU32(num, den) == num \div den

\* x_min.min(0.0), x_max and the numerator width - 2 * margin of scale_x
\* (c = 1), or the same for y (c = 2).  The limits are whole numbers, the
\* same whichever zero a min or max returned.
ScatterAxis(points, cv, c) ==
    LET l == CHOOSE q \in ScatterLimits(points, c) : TRUE
    IN  [min |-> F64Rank(l[1]), max |-> F64Rank(l[2]),
         n |-> (IF c = 1 THEN cv.width ELSE cv.height) - 2 * cv.margin]

\* The px and py that draw hands to draw_dot for the point p, as the i32
\* they are cast to, and whether the u32 subtraction of py underflowed.
MarkerCentre(points, cv, p) ==
    LET ax == ScatterAxis(points, cv, 1)
        ay == ScatterAxis(points, cv, 2)
        origin_x == cv.margin + F64AsU32((0 - ax.min) * ax.n, ax.max - ax.min)
        origin_y == cv.height - cv.margin - F64AsU32((0 - ay.min) * ay.n, ay.max - ay.min)
        tx == F64AsU32((F64Rank(p[1]) - ax.min) * ax.n, ax.max - ax.min)
        ty == F64AsU32((F64Rank(p[2]) - ay.min) * ay.n, ay.max - ay.min)
    IN  [px |-> origin_x + tx, py |-> origin_y - ty, underflow |-> origin_y < ty]

\* Hover::to_canvas_coordinates of ScatterGraph.
to_canvas_coordinates(points, cv, p) ==
    LET ax == ScatterAxis(points, cv, 1)
        ay == ScatterAxis(points, cv, 2)
        rx == ax.max - ax.min
        ry == ay.max - ay.min
    IN  <<F64AsU32((F64Rank(p[1]) - ax.min) * ax.n + cv.margin * rx, rx),
          F64AsU32((cv.height - cv.margin) * ry - (F64Rank(p[2]) - ay.min) * ay.n, ry)>>

InitScatter ==
    /\ width = 1 /\ height = 1 /\ margin = 0
    /\ background_color = <<255, 255, 255>>
    /\ overflow_checks \in BOOLEAN
    /\ buffer = new(1, 1)
    /\ panicked = FALSE
    /\ last = [op |-> "new", args |-> <<>>, color |-> background_color,
               alpha |-> <<0, 1>>, style |-> NoStyle, pre |-> <<>>,
               after |-> "none"]
    /\ svg = NoObject /\ graph = NoObject /\ dataset = NoObject
    /\ \E points \in ScatterPointVecs, cv \in ScatterCanvases :
          /\ ScatterAxis(points, cv, 1).max > ScatterAxis(points, cv, 1).min
          /\ ScatterAxis(points, cv, 2).max > ScatterAxis(points, cv, 2).min
          /\ figure = [op |-> "new", kind |-> "ScatterGraph", points |-> points,
                       canvas |-> cv, centres |-> <<>>, hover |-> <<>>, stopped |-> ""]

\* ScatterGraph::draw on the canvas cv, for a graph of one dataset whose
\* fonts are set and whose label measures (0, 0): the centres it hands to
\* draw_dot in the first pass over the points, and the step at which it
\* panics ("" when it returns).  With overflow checks (checks) it panics in
\* the y ticks at origin_x - 10 or at the first tick_y that underflows, the
\* offset of tick i being i tenths of height - 2 * margin; at the first py
\* that underflows; and in draw_legend at y -= line_height, after the cursor
\* x has passed width - margin.  Without them every one of these wraps.
ScatterDraw(points, cv, checks) ==
    LET ax == ScatterAxis(points, cv, 1)
        ay == ScatterAxis(points, cv, 2)
        origin_x == cv.margin + F64AsU32((0 - ax.min) * ax.n, ax.max - ax.min)
        origin_y == cv.height - cv.margin - F64AsU32((0 - ay.min) * ay.n, ay.max - ay.min)
        c == [k \in 1..Len(points) |-> MarkerCentre(points, cv, points[k])]
        handed == IF \E k \in 1..Len(c) : c[k].underflow
                  THEN (CHOOSE k \in 1..Len(c) :
                           c[k].underflow /\ \A j \in 1..(k - 1) : ~c[j].underflow) - 1
                  ELSE Len(c)
        ticks_y == \/ origin_x < 10
                   \/ \E i \in 0..10 : origin_y < F64AsU32(i * ay.n, 10)
        legend == /\ cv.margin + 10 + 5 + 0 + 5 > cv.width - cv.margin
                  /\ cv.height - cv.margin < 20
    IN  IF checks /\ ticks_y THEN [centres |-> <<>>, stopped |-> "ticks_y"]
        ELSE IF checks /\ handed < Len(c)
             THEN [centres |-> [k \in 1..handed |-> <<c[k].px, c[k].py>>],
                   stopped |-> "data"]
        ELSE [centres |-> [k \in 1..Len(c) |-> <<c[k].px, c[k].py>>],
              stopped |-> IF checks /\ legend THEN "legend" ELSE ""]

\* One draw of the graph on its canvas.
FinishScatter(d) ==
    /\ figure' = [figure EXCEPT !.op = "draw", !.centres = d.centres, !.stopped = d.stopped]
    /\ panicked' = (d.stopped # "")
    /\ UNCHANGED <<width, height, background_color, buffer, margin, overflow_checks, last>>
    /\ UNCHANGED <<svg, graph, dataset>>

ScatterMarkers ==
    /\ ~panicked /\ figure.op # "draw" /\ figure.centres = <<>>
    /\ FinishScatter(ScatterDraw(figure.points, figure.canvas, overflow_checks))

ScatterHover ==
    /\ ~panicked /\ figure.hover = <<>>
    /\ figure' = [figure EXCEPT !.op = "to_canvas_coordinates",
                      !.hover = [k \in 1..Len(figure.points) |->
                          to_canvas_coordinates(figure.points, figure.canvas, figure.points[k])]]
    /\ UNCHANGED <<canvasVars, svg, graph, dataset>>

NextScatter == ScatterMarkers \/ ScatterHover

SpecScatter == InitScatter /\ [][NextScatter]_vars

\* ================================================= the steps of Drawer::draw
\* src/src/figure/drawers/drawerscattergraph.rs, drawerareachart.rs,
\* drawerquadrant1graph.rs, drawercartesiangraph.rs, drawerhistogram.rs,
\* drawerpiechart.rs and figuretypes/groupbarchart.rs: the whole draw of
\* each of the seven figures that implement Drawer, a ScatterGraph, an
\* AreaChart, a Quadrant1Graph, a CartesianGraph, a Histogram, a
\* GroupBarChart of either orientation and a PieChart, as the sequence of
\* its painting steps, made once or, as in the frames of display_real_time,
\* after an update_data and again and again on the same canvas.  The fonts
\* are set, and the font file is one whose glyphs have no outline: draw_text
\* stamps no pixel and text_size is (0, 0), so that the title, the labels
\* and the tick values leave the buffer as it is.  The coordinates are whole
\* numbers and the ranges divide the extents between the margins, so that
\* the f64 arithmetic of the scales is exact; the values of the slices make
\* every percentage a multiple of 0.25, so that every angle of a slice is a
\* multiple of PI / 2.  The canvases are the widest and highest of the
\* model, MaxW - 2 to MaxW pixels by MaxH - 1 to MaxH: they are narrower
\* than 10 pixels, and twice the margin fits in both extents.

\* cfg.color_axis of FigureConfig::default(), and the [0, 0, 0] of the axis
\* lines of ScatterGraph and AreaChart.
ColorAxis == <<0, 0, 0>>

\* The colour of the i-th dataset handed to add_dataset.
DatasetColor(i) == <<40 * i, 140, 240>>

\* ScatterDotType: <<"Circle", radius>>, <<"Square", size>>,
\* <<"Cross", thickness>>, <<"Triangle", base>>.
DotTypes == {<<"Circle", 1>>, <<"Square", 2>>, <<"Cross", 1>>, <<"Triangle", 2>>}

\* The points of a dataset of a ScatterGraph, of an AreaChart and of a
\* Quadrant1Graph.  The add_dataset of a Quadrant1Graph is handed rising and
\* falling only, which it keeps as they have no negative coordinate.
OrderPointVecs ==
    [rising |-> <<<<0, 0>>, <<1, 1>>>>,
     sunk |-> <<<<0, 0 - 1>>, <<1, 0>>>>,
     spread |-> <<<<0 - 1, 0>>, <<1, 1>>>>,
     falling |-> <<<<0, 1>>, <<1, 0>>>>]

\* The points handed to the add_dataset calls of a figure, call by call:
\* one dataset or two.
ScatterVecLists ==
    {<<OrderPointVecs.rising>>, <<OrderPointVecs.rising, OrderPointVecs.sunk>>,
     <<OrderPointVecs.sunk, OrderPointVecs.sunk>>}
AreaVecLists ==
    {<<OrderPointVecs.rising>>, <<OrderPointVecs.sunk>>,
     <<OrderPointVecs.rising, OrderPointVecs.sunk>>}
Quadrant1VecLists ==
    {<<OrderPointVecs.rising>>, <<OrderPointVecs.rising, OrderPointVecs.falling>>}

\* The data of a BarDataset: (x, income) with every income 1.0, and the
\* data of the datasets of a GroupBarChart, one or two of them.
BarDataVecs == {<<<<1, 1>>>>, <<<<1, 1>>, <<2, 1>>>>, <<<<2, 1>>>>}
BarVecLists ==
    {<<<<<<1, 1>>>>>>, <<<<<<1, 1>>, <<2, 1>>>>>>,
     <<<<<<1, 1>>, <<2, 1>>>>, <<<<2, 1>>>>>>, <<<<<<1, 1>>>>, <<<<1, 1>>, <<2, 1>>>>>>}

\* The values handed to add_slice, slice by slice.
PieValueVecs == {<<0>>, <<1>>, <<1, 1>>, <<1, 3>>, <<3, 1>>, <<0, 1>>}

\* The datasets of a figure, one or two of them: the i-th has the i-th
\* colour.  The second is the first whose legend entry follows a wrap of the
\* legend's cursor.
OrderDatasets(lists, dot, a, line_type) ==
    {[i \in 1..Len(v) |-> [points |-> v[i], color |-> DatasetColor(i),
                           dot_type |-> dot, alpha |-> a, line_type |-> line_type]] :
        v \in lists}

\* .flat_map(|dataset| dataset.points.iter()): the points of every dataset,
\* as f64 values.
RECURSIVE FlatPoints(_)
FlatPoints(datasets) ==
    IF datasets = <<>> THEN <<>>
    ELSE [k \in 1..Len(Head(datasets).points) |->
             <<Num(Head(datasets).points[k][1]), Num(Head(datasets).points[k][2])>>]
         \o FlatPoints(Tail(datasets))

\* The canvas as draw reads it.
ThisCanvas == [width |-> width, height |-> height, margin |-> margin]

\* origin_x, origin_y and the two scales of the draw of a ScatterGraph or an
\* AreaChart.
OrderGeometry(f) ==
    LET pts == FlatPoints(f.datasets)
        ax == ScatterAxis(pts, ThisCanvas, 1)
        ay == ScatterAxis(pts, ThisCanvas, 2)
    IN  [origin_x |-> margin + F64AsU32((0 - ax.min) * ax.n, ax.max - ax.min),
         origin_y |-> height - margin - F64AsU32((0 - ay.min) * ay.n, ay.max - ay.min),
         scale_x |-> ax.n \div (ax.max - ax.min),
         scale_y |-> ay.n \div (ay.max - ay.min)]

\* `a / b` on i32: truncation towards zero.
TruncDiv(a, b) == IF a >= 0 THEN a \div b ELSE 0 - ((0 - a) \div b)

\* The offsets (dx, dy) at which draw_dot calls draw_pixel, in the order of
\* its loops.  The dx of a Triangle is base * (1 - dy / base), exact for a
\* base of 1 or 2.
DotOffsets(dot) ==
    LET r == dot[2]
        Square(lo, hi) ==
            [k \in 1..((hi - lo + 1) * (hi - lo + 1)) |->
                <<lo + ((k - 1) % (hi - lo + 1)), lo + ((k - 1) \div (hi - lo + 1))>>]
        InCircle(o) == o[1] * o[1] + o[2] * o[2] <= r * r
        Row(dy) == [k \in 1..(2 * (r - dy) + 1) |-> <<k - 1 - (r - dy), 0 - dy>>]
        Rows[dy \in 0..r] == IF dy = 0 THEN Row(0) ELSE Rows[dy - 1] \o Row(dy)
    IN  CASE dot[1] = "Circle" -> SelectSeq(Square(0 - r, r), InCircle)
          [] dot[1] = "Square" -> Square(TruncDiv(0 - r, 2), TruncDiv(r, 2))
          [] dot[1] = "Cross" ->
                [k \in 1..(2 * (2 * r + 1)) |->
                    IF k % 2 = 1 THEN <<((k - 1) \div 2) - r, 0>>
                    ELSE <<0, ((k - 1) \div 2) - r>>]
          [] dot[1] = "Triangle" -> Rows[r]

\* ScatterGraph::draw_dot, x and y being i32 values.
RECURSIVE DotPixels(_, _, _, _, _)
DotPixels(cv, x, y, offsets, color) ==
    IF offsets = <<>> THEN cv
    ELSE DotPixels(draw_pixel(cv, AsU32(x + Head(offsets)[1]), AsU32(y + Head(offsets)[2]),
                              color),
                   x, y, Tail(offsets), color)

draw_dot(cv, x, y, dot_type, color) == DotPixels(cv, x, y, DotOffsets(dot_type), color)

\* The inner loops of "Draw scatter points": a dot for every point of every
\* dataset.  py = origin_y - .. is a u32 subtraction.
RECURSIVE ScatterPass(_, _, _, _)
ScatterPass(cv, f, d, k) ==
    IF cv.panicked \/ d > Len(f.datasets) THEN cv
    ELSE IF k > Len(f.datasets[d].points) THEN ScatterPass(cv, f, d + 1, 1)
    ELSE LET p == f.datasets[d].points[k]
             c == MarkerCentre(FlatPoints(f.datasets), ThisCanvas, <<Num(p[1]), Num(p[2])>>)
         IN  IF overflow_checks /\ c.underflow THEN Canvas(cv.buffer, TRUE)
             ELSE ScatterPass(draw_dot(cv, c.px, c.py, f.datasets[d].dot_type,
                                       f.datasets[d].color),
                              f, d, k + 1)

\* The outer loops of "Draw scatter points": one pass for every point of
\* every dataset.
RECURSIVE ScatterPasses(_, _, _)
ScatterPasses(cv, f, n) ==
    IF n = 0 THEN cv ELSE ScatterPasses(ScatterPass(cv, f, 1, 1), f, n - 1)

\* for dataset in &self.datasets { self.draw_area(..) }
RECURSIVE AreaPasses(_, _, _)
AreaPasses(cv, f, d) ==
    IF d > Len(f.datasets) THEN cv
    ELSE LET g == OrderGeometry(f)
         IN  AreaPasses(draw_area(cv, f.datasets[d].points, g.origin_x, g.origin_y,
                                  g.scale_x, g.scale_y, f.datasets[d].color,
                                  f.datasets[d].alpha),
                        f, d + 1)

\* The elements of a set of numbers in increasing order.
RECURSIVE Ascending(_)
Ascending(S) ==
    IF S = {} THEN <<>>
    ELSE LET m == CHOOSE x \in S : \A y \in S : x <= y
         IN  <<m>> \o Ascending(S \ {m})

\* unique_x_values: the x of the data of every dataset, through a BTreeSet.
unique_x_values(f) ==
    Ascending({f.datasets[q[1]].points[q[2]][1] :
                  q \in {r \in (1..Len(f.datasets)) \X (1..MaxPoints) :
                            r[2] <= Len(f.datasets[r[1]].points)}})

\* dataset.data.iter().find(|(x, _)| ..): the first entry at x_label, or <<>>.
FindX(data, x_label) ==
    IF \E k \in 1..Len(data) : data[k][1] = x_label
    THEN <<data[CHOOSE k \in 1..Len(data) :
                   /\ data[k][1] = x_label
                   /\ \A j \in 1..(k - 1) : data[j][1] # x_label]>>
    ELSE <<>>

\* for x in bar_left..=bar_right { for y in top..origin_y { draw_pixel } }
RECURSIVE BarPixels(_, _, _, _, _, _, _)
BarPixels(cv, x, bar_right, y, top, origin_y, color) ==
    IF x > bar_right THEN cv
    ELSE IF y >= origin_y THEN BarPixels(cv, x + 1, bar_right, top, top, origin_y, color)
    ELSE BarPixels(draw_pixel(cv, AsU32(x), AsU32(y), color),
                   x, bar_right, y + 1, top, origin_y, color)

\* "Draw x-axis labels and grouped bars" of draw_vertical: group g (from 0)
\* and in it company c (from 0).  With y_max = 1.0, scale_y is
\* height - 2 * margin; scale_x is (width - 2 * margin) / x_count,
\* group_width is 0.8 of it and bar_width is group_width / datasets.len().
RECURSIVE GroupBars(_, _, _, _)
GroupBars(cv, f, g, c) ==
    LET unique == unique_x_values(f)
        x_count == Len(unique)
        nx == width - 2 * margin
        ny == height - 2 * margin
        len == Len(f.datasets)
        origin_y == height - margin
        group_center_x == margin + F64AsU32((2 * g + 1) * nx, 2 * x_count)
        found == FindX(f.datasets[c + 1].points, unique[g + 1])
        bar_height == F64AsU32(found[1][2] * ny, 1)
        bar_left == group_center_x - F64AsU32(8 * nx, 20 * x_count)
                        + F64AsU32(8 * nx * c, 10 * x_count * len)
        bar_right == bar_left + F64AsU32(8 * nx, 10 * x_count * len)
    IN  IF g >= x_count THEN cv
        ELSE IF c >= len THEN GroupBars(cv, f, g + 1, 0)
        ELSE IF found = <<>> THEN GroupBars(cv, f, g, c + 1)
        ELSE GroupBars(BarPixels(cv, bar_left, bar_right, origin_y - bar_height,
                                 origin_y - bar_height, origin_y, f.datasets[c + 1].color),
                       f, g, c + 1)

\* "Draw grouped horizontal bars" of draw_horizontal: group g (from 0) and in
\* it company c (from 0).  The group begins with the draw_axis_value handed
\* origin_x - 10, a u32 subtraction.  With x_max = 1.0, scale_x is
\* width - 2 * margin and bar_length is that for the value 1.0; scale_y is
\* (height - 2 * margin) / y_count, group_height is 0.8 of it and bar_height
\* is group_height / datasets.len().
RECURSIVE GroupBarsHorizontal(_, _, _, _)
GroupBarsHorizontal(cv, f, g, c) ==
    LET unique == unique_x_values(f)
        y_count == Len(unique)
        nx == width - 2 * margin
        ny == height - 2 * margin
        len == Len(f.datasets)
        origin_x == margin
        origin_y == height - margin
        group_center_y == origin_y - F64AsU32((2 * g + 1) * ny, 2 * y_count)
        found == FindX(f.datasets[c + 1].points, unique[g + 1])
        bar_length == F64AsU32(found[1][2] * nx, 1)
        bar_top == group_center_y - F64AsU32(8 * ny, 20 * y_count)
                       + F64AsU32(8 * ny * c, 10 * y_count * len)
        bar_bottom == bar_top + F64AsU32(8 * ny, 10 * y_count * len)
    IN  IF cv.panicked \/ g >= y_count THEN cv
        ELSE IF c = 0 /\ overflow_checks /\ origin_x < 10 THEN Canvas(cv.buffer, TRUE)
        ELSE IF c >= len THEN GroupBarsHorizontal(cv, f, g + 1, 0)
        ELSE IF found = <<>> THEN GroupBarsHorizontal(cv, f, g, c + 1)
        ELSE GroupBarsHorizontal(BarPixels(cv, origin_x, origin_x + bar_length - 1, bar_top,
                                           bar_top, bar_bottom, f.datasets[c + 1].color),
                                 f, g, c + 1)

\* The quarter turn the normalized angle of draw_slice falls in, for x and y
\* whole numbers: q when the angle is at least q * PI / 2 and below
\* (q + 1) * PI / 2.  atan2 is 0 at (0, 0) and on the positive x axis, PI / 2
\* on the positive y axis and PI on the negative x axis; below the x axis it
\* is negative and 2 * PI is added.
QuarterOf(x, y) ==
    IF y >= 0 /\ x > 0 THEN 0
    ELSE IF y > 0 /\ x <= 0 THEN 1
    ELSE IF y <= 0 /\ x < 0 THEN 2
    ELSE IF y < 0 THEN 3
    ELSE 0

\* The loops of PieChart::draw_slice from the k-th pair (x, y) on, y being
\* the outer one; start_angle and end_angle are counted in quarter turns.
RECURSIVE SlicePixels(_, _, _, _, _, _, _, _)
SlicePixels(cv, center_x, center_y, radius, start_angle, end_angle, color, k) ==
    LET side == 2 * radius + 1
        x == ((k - 1) % side) - radius
        y == ((k - 1) \div side) - radius
    IN  IF cv.panicked \/ k > side * side THEN cv
        ELSE IF /\ x * x + y * y <= radius * radius
                /\ QuarterOf(x, y) >= start_angle /\ QuarterOf(x, y) < end_angle
             THEN SlicePixels(draw_pixel(cv, AsU32(center_x + x), AsU32(center_y - y), color),
                              center_x, center_y, radius, start_angle, end_angle, color, k + 1)
        ELSE SlicePixels(cv, center_x, center_y, radius, start_angle, end_angle, color, k + 1)

draw_slice(cv, center_x, center_y, radius, start_angle, end_angle, color) ==
    SlicePixels(cv, center_x, center_y, radius, start_angle, end_angle, color, 1)

\* The sum of the values of the slices.
RECURSIVE PieTotal(_)
PieTotal(datasets) ==
    IF datasets = <<>> THEN 0 ELSE Head(datasets).value + PieTotal(Tail(datasets))

\* The loop of the draw of a PieChart over the slices from the d-th on: the
\* slice, its label and start_angle += sweep_angle, the angles in quarter
\* turns.  The radius is a u32 difference that twice the margin fitting in
\* both extents keeps from underflowing.
RECURSIVE PieSlices(_, _, _, _)
PieSlices(cv, f, d, start_angle) ==
    LET center_x == width \div 2
        center_y == height \div 2
        radius == ((IF width < height THEN width ELSE height) \div 2) - margin
        sweep_angle == (4 * f.datasets[d].value) \div PieTotal(f.datasets)
    IN  IF cv.panicked \/ d > Len(f.datasets) THEN cv
        ELSE PieSlices(draw_label(draw_slice(cv, center_x, center_y, radius, start_angle,
                                             start_angle + sweep_angle, f.datasets[d].color),
                                  TRUE),
                       f, d + 1, start_angle + sweep_angle)

\* for dx in 0..10 { canvas.draw_pixel(x + dx, row, color) }
RECURSIVE LegendRow(_, _, _, _, _)
LegendRow(cv, x, row, dx, color) ==
    IF dx >= 10 THEN cv
    ELSE LegendRow(draw_pixel(cv, AsU32(x + dx), row, color), x, row, dx + 1, color)

\* The square of one legend entry: for dy in 0..10, the row
\* y + 20 + dy + h of ten pixels.  y is a u32 that may have wrapped, and the
\* sums are u32 sums.
RECURSIVE LegendSquare(_, _, _, _, _)
LegendSquare(cv, x, y, dy, color) ==
    LET a == AddU32(y, AsU32(20))
        b == AddU32(a.val, AsU32(dy))
    IN  IF cv.panicked \/ dy >= 10 THEN cv
        ELSE IF overflow_checks /\ (a.ovf \/ b.ovf) THEN Canvas(cv.buffer, TRUE)
        ELSE LegendSquare(LegendRow(cv, x, b.val, 0, color), x, y, dy + 1, color)

\* The loop of draw_legend over the datasets from the d-th on, x and y being
\* its two cursors (y as a u32).  The labels measure (0, 0).
RECURSIVE LegendEntries(_, _, _, _, _)
LegendEntries(cv, f, d, x, y) ==
    LET squared == LegendSquare(cv, x, y, 0, f.datasets[d].color)
        next_x == x + 10 + 5 + 0 + 5
        up == SubU32(y, AsU32(20))
    IN  IF cv.panicked \/ d > Len(f.datasets) THEN cv
        ELSE IF squared.panicked THEN squared
        ELSE IF next_x > width - margin
             THEN IF overflow_checks /\ up.ovf THEN Canvas(squared.buffer, TRUE)
                  ELSE LegendEntries(squared, f, d + 1, margin, up.val)
             ELSE LegendEntries(squared, f, d + 1, next_x, y)

\* Drawer::draw_legend of ScatterGraph, AreaChart, Quadrant1Graph,
\* GroupBarChart and PieChart.
draw_legend(cv, f) == LegendEntries(cv, f, 1, margin, AsU32(height - margin))

\* The four axis lines.
draw_axes(cv) ==
    draw_horizontal_line(
        draw_horizontal_line(
            draw_vertical_line(draw_vertical_line(cv, AsU32(margin), ColorAxis),
                               AsU32(width - margin), ColorAxis),
            AsU32(height - margin), ColorAxis),
        AsU32(margin), ColorAxis)

\* The y ticks: the first draw_axis_value is handed origin_x - back, a u32
\* subtraction, after a tick_y = origin_y - 0 that cannot underflow.  On the
\* canvases of the model origin_x is below back, so with overflow checks the
\* loop ends there; without them every subtraction wraps and the tick values
\* stamp nothing.
draw_ticks_y(cv, origin_x, back) ==
    IF cv.panicked THEN cv ELSE Canvas(cv.buffer, overflow_checks /\ origin_x < back)

\* The two axis lines of draw_horizontal.
draw_axes_horizontal(cv) ==
    draw_horizontal_line(draw_vertical_line(cv, AsU32(margin), ColorAxis),
                         AsU32(height - margin), ColorAxis)

\* The range of LineGraph::new, taken for that of CartesianGraph::new.
NewRange == [x_min |-> Inf, x_max |-> NegInf, y_min |-> Inf, y_max |-> NegInf]

\* The datasets with every coordinate an f64 of the data.
AsF64Datasets(datasets) ==
    [i \in 1..Len(datasets) |->
        [points |-> [k \in 1..Len(datasets[i].points) |->
                        <<Num(datasets[i].points[k][1]), Num(datasets[i].points[k][2])>>]]]

\* The range after the first n of the add_dataset calls that hand in the
\* datasets, each of which pushes its dataset and calls update_range on the
\* range the call before left.
RECURSIVE RangeAdded(_, _)
RangeAdded(datasets, n) ==
    IF n = 0 THEN NewRange
    ELSE LineGraph_update_range(RangeAdded(datasets, n - 1),
                                AsF64Datasets(SubSeq(datasets, 1, n)))

\* "Ensure x_min and x_max are symmetric" of the draw of a CartesianGraph:
\* the range it stores in self.  y_min and y_max stay as they are.
CartesianSymmetricX(r) ==
    LET abs_x_min == F64Abs(r.x_min)
        abs_x_max == F64Abs(r.x_max)
    IN  IF F64Gt(abs_x_min, abs_x_max) THEN [r EXCEPT !.x_max = abs_x_min]
        ELSE [r EXCEPT !.x_min = F64Neg(abs_x_max)]

\* Whether the range holds numbers, as it does once a point was folded in.
RangeOfNumbers(r) ==
    /\ r.x_min[1] \in {"num", "-0.0"} /\ r.x_max[1] \in {"num", "-0.0"}
    /\ r.y_min[1] \in {"num", "-0.0"} /\ r.y_max[1] \in {"num", "-0.0"}

\* `v as u32` for the f64 v = num / den, den > 0: truncation, and 0 for a
\* negative v.
F64AsU32Saturating(num, den) == IF num <= 0 THEN 0 ELSE num \div den

\* center_x, center_y and the numbers behind scale_x and scale_y of the draw
\* of a CartesianGraph: scale_x is nx / x_range and scale_y is ny / y_range.
\* below is ((0.0 - self.y_min) * scale_y) as u32, which origin_y subtracts
\* from height - margin: the cast of a NaN, 0, for the range of a graph
\* without points.
CartesianScales(f) ==
    LET r == CartesianSymmetricX(f.range)
        numbers == RangeOfNumbers(r)
        ny == height - 2 * margin
    IN  [center_x |-> width \div 2, center_y |-> height \div 2,
         nx |-> width - 2 * margin, ny |-> ny,
         x_range |-> IF numbers THEN F64Rank(r.x_max) - F64Rank(r.x_min) ELSE 0,
         y_range |-> IF numbers THEN F64Rank(r.y_max) - F64Rank(r.y_min) ELSE 0,
         below |-> IF numbers
                   THEN F64AsU32Saturating((0 - F64Rank(r.y_min)) * ny,
                                           F64Rank(r.y_max) - F64Rank(r.y_min))
                   ELSE 0]

\* The while loop of the draw of a CartesianGraph: the stepping of
\* draw_line, a pixel written where the cursor lies between the margins, and
\* no write at (x2, y2).
RECURSIVE CartesianLoop(_, _, _, _, _, _, _, _)
CartesianLoop(cv, x, y, err, x2, y2, g, color) ==
    IF x # x2 \/ y # y2
    THEN LET n == LineStep(x, y, err, g)
         IN  CartesianLoop(IF /\ x >= margin /\ x < width - margin
                              /\ y >= margin /\ y < height - margin
                           THEN draw_pixel(cv, AsU32(x), AsU32(y), color)
                           ELSE cv,
                           n.x, n.y, n.err, x2, y2, g, color)
    ELSE cv

\* One window [p1, p2] of the points of a dataset: the i32 ends of the line
\* from the centre of the canvas, and the loop between them.
CartesianWindow(cv, s, p1, p2, color) ==
    LET x1 == s.center_x + F64AsI32(p1[1] * s.nx, s.x_range)
        y1 == s.center_y - F64AsI32(p1[2] * s.ny, s.y_range)
        x2 == s.center_x + F64AsI32(p2[1] * s.nx, s.x_range)
        y2 == s.center_y - F64AsI32(p2[2] * s.ny, s.y_range)
        g == LineSetup(x1, y1, x2, y2)
    IN  CartesianLoop(cv, x1, y1, g.err, x2, y2, g, color)

\* for dataset in &self.datasets { for window in dataset.points.windows(2) }
\* from the k-th window of the d-th dataset on.
RECURSIVE CartesianLines(_, _, _, _, _)
CartesianLines(cv, f, s, d, k) ==
    IF cv.panicked \/ d > Len(f.datasets) THEN cv
    ELSE IF k + 1 > Len(f.datasets[d].points) THEN CartesianLines(cv, f, s, d + 1, 1)
    ELSE CartesianLines(CartesianWindow(cv, s, f.datasets[d].points[k],
                                        f.datasets[d].points[k + 1], f.datasets[d].color),
                        f, s, d, k + 1)

\* The two axis lines of a CartesianGraph, through the centre of the canvas.
draw_axes_cartesian(cv) ==
    draw_horizontal_line(draw_vertical_line(cv, AsU32(width \div 2), ColorAxis),
                         AsU32(height \div 2), ColorAxis)

\* The two labels of a CartesianGraph, after origin_y = height - margin -
\* below, a u32 subtraction.
draw_labels_cartesian(cv, s) ==
    IF cv.panicked THEN cv
    ELSE IF overflow_checks /\ s.below > height - margin THEN Canvas(cv.buffer, TRUE)
    ELSE draw_label(draw_label(cv, TRUE), TRUE)

\* The line_type of the datasets of a Quadrant1Graph.
Quadrant1LineTypes == {<<"Solid", 0, 0>>, <<"Dashed", 1, 0>>}

\* The limits of the draw of a Quadrant1Graph on one axis, as whole
\* numbers, and the numerator of its scale.
Quadrant1Axis(f, c) ==
    LET l == CHOOSE q \in Quadrant1Limits(FlatPoints(f.datasets), c) : TRUE
    IN  [min |-> F64Rank(l[1]), max |-> F64Rank(l[2]),
         n |-> (IF c = 1 THEN width ELSE height) - 2 * margin]

\* origin_x, origin_y and the two axes of the draw of a Quadrant1Graph.
Quadrant1Geometry(f) ==
    LET ax == Quadrant1Axis(f, 1)
        ay == Quadrant1Axis(f, 2)
    IN  [origin_x |-> margin + F64AsU32((0 - ax.min) * ax.n, ax.max - ax.min),
         origin_y |-> height - margin - F64AsU32((0 - ay.min) * ay.n, ay.max - ay.min),
         ax |-> ax, ay |-> ay]

\* "Draw datasets" of the draw of a Quadrant1Graph, from the k-th window of
\* the d-th dataset on: the draw_line between the two ends of the window.
\* y1 and y2 are u32 differences, handed to draw_line as i32.
RECURSIVE Quadrant1Lines(_, _, _, _, _)
Quadrant1Lines(cv, f, g, d, k) ==
    IF cv.panicked \/ d > Len(f.datasets) THEN cv
    ELSE IF k + 1 > Len(f.datasets[d].points) THEN Quadrant1Lines(cv, f, g, d + 1, 1)
    ELSE LET p1 == f.datasets[d].points[k]
             p2 == f.datasets[d].points[k + 1]
             x1 == g.origin_x + F64AsU32((p1[1] - g.ax.min) * g.ax.n, g.ax.max - g.ax.min)
             y1 == g.origin_y - F64AsU32((p1[2] - g.ay.min) * g.ay.n, g.ay.max - g.ay.min)
             x2 == g.origin_x + F64AsU32((p2[1] - g.ax.min) * g.ax.n, g.ax.max - g.ax.min)
             y2 == g.origin_y - F64AsU32((p2[2] - g.ay.min) * g.ay.n, g.ay.max - g.ay.min)
         IN  IF overflow_checks /\ (y1 < 0 \/ y2 < 0) THEN Canvas(cv.buffer, TRUE)
             ELSE Quadrant1Lines(draw_line(cv, x1, y1, x2, y2, f.datasets[d].color,
                                           f.datasets[d].line_type),
                                 f, g, d, k + 1)

\* y_max of the draw of a Histogram, the fold of f64::max from 0.0 over the
\* frequencies of calculate_bins, and the numerators of its two scales:
\* scale_x is nx / bins and scale_y is ny / y_max.
RECURSIVE MaxFrequency(_, _)
MaxFrequency(bin_data, acc) ==
    IF bin_data = <<>> THEN acc
    ELSE MaxFrequency(Tail(bin_data),
                      IF Head(bin_data)[2] > acc THEN Head(bin_data)[2] ELSE acc)

HistogramScales(f) ==
    [bin_data |-> calculate_bins(f.hist),
     y_max |-> MaxFrequency(calculate_bins(f.hist), 0),
     nx |-> width - 2 * margin, ny |-> height - 2 * margin,
     origin_x |-> margin, origin_y |-> height - margin]

\* (v * scale_y) as i32 for v = num / den of y_max: 0 for the NaN that the
\* product is when y_max is 0.0 and scale_y is infinite or NaN.
HistogramRise(s, num, den) ==
    IF s.y_max = 0 THEN 0 ELSE (num * s.ny) \div (den * s.y_max)

\* (i as f64 * scale_x) as i32.
HistogramRun(f, s, i) == (i * s.nx) \div f.hist.bins

\* "Draw bars with edges" from the bin i (from 0) on: the bar filled in the
\* colour of the histogram, then its left, right and top edge in [0, 0, 0].
RECURSIVE HistogramBars(_, _, _, _)
HistogramBars(cv, f, s, i) ==
    IF cv.panicked \/ i >= Len(s.bin_data) THEN cv
    ELSE LET bar_height == HistogramRise(s, s.bin_data[i + 1][2], 1)
             bar_left == s.origin_x + HistogramRun(f, s, i)
             bar_right == bar_left + HistogramRun(f, s, 1)
             top == s.origin_y - bar_height
             filled == BarPixels(cv, bar_left, bar_right, top, top, s.origin_y, f.color)
             left == BarPixels(filled, bar_left, bar_left, top, top, s.origin_y, ColorAxis)
             right == BarPixels(left, bar_right, bar_right, top, top, s.origin_y, ColorAxis)
             topped == BarPixels(right, bar_left, bar_right, top, top, top + 1, ColorAxis)
         IN  HistogramBars(topped, f, s, i + 1)

\* The data of the draw of a Histogram: bin_data[0] and bin_data[1], an
\* index out of range for fewer than two bins, and the bars.
HistogramData(cv, f) ==
    IF cv.panicked THEN cv
    ELSE IF Len(HistogramScales(f).bin_data) < 2 THEN Canvas(cv.buffer, TRUE)
    ELSE HistogramBars(cv, f, HistogramScales(f), 0)

\* "Add x-axis ticks and labels at bin edges": for i in 0..=self.bins the
\* tick mark, and a draw_axis_value that stamps nothing.
RECURSIVE HistogramTicksX(_, _, _, _)
HistogramTicksX(cv, f, s, i) ==
    IF cv.panicked \/ i > f.hist.bins THEN cv
    ELSE HistogramTicksX(draw_pixel(cv, AsU32(s.origin_x + HistogramRun(f, s, i)),
                                    AsU32(s.origin_y), ColorAxis),
                         f, s, i + 1)

\* "Add y-axis ticks and labels": for i in 0..=10 the tick mark at the rise
\* of y_max * i / 10, then a draw_axis_value that is handed
\* origin_x as u32 - 10.
RECURSIVE HistogramTicksY(_, _, _, _)
HistogramTicksY(cv, f, s, i) ==
    IF cv.panicked \/ i > 10 THEN cv
    ELSE LET marked == draw_pixel(cv, AsU32(s.origin_x),
                                  AsU32(s.origin_y - HistogramRise(s, s.y_max * i, 10)),
                                  ColorAxis)
         IN  IF marked.panicked THEN marked
             ELSE IF overflow_checks /\ s.origin_x < 10 THEN Canvas(marked.buffer, TRUE)
             ELSE HistogramTicksY(marked, f, s, i + 1)

\* The painting steps of the draws, in the order of their statements.
ScatterStepsAxesFirst ==
    <<"clear", "title", "axes", "grid", "labels", "ticks_x", "ticks_y", "data", "legend">>

ScatterSteps ==
    <<"clear", "title", "grid", "labels", "ticks_x", "ticks_y", "data", "axes", "legend">>

AreaSteps ==
    <<"clear", "title", "grid", "labels", "ticks_x", "ticks_y", "data", "axes", "legend">>

GroupBarSteps ==
    <<"clear", "title", "grid", "axes", "labels", "ticks_y", "data", "legend">>

GroupBarHorizontalSteps ==
    <<"clear", "title", "grid", "labels", "ticks_x", "data", "axes", "legend">>

Quadrant1Steps ==
    <<"clear", "title", "grid", "labels", "ticks_x", "ticks_y", "data", "axes", "legend">>

\* The draw of a Histogram paints its bars before the ticks, and calls no
\* draw_legend.
HistogramSteps ==
    <<"clear", "title", "grid", "data", "ticks_x", "ticks_y", "labels", "axes">>

\* The one loop of the ticks of a CartesianGraph makes both draw_axis_value
\* calls of a tick.
CartesianSteps ==
    <<"clear", "title", "grid", "axes", "data", "labels", "ticks">>

\* The draw of a PieChart returns after the title when total == 0.0.
PieSteps(f) ==
    IF PieTotal(f.datasets) = 0 THEN <<"clear", "title">>
    ELSE <<"clear", "title", "data", "legend">>

DrawSteps(f) ==
    CASE f.kind = "ScatterGraph" -> ScatterSteps
      [] f.kind = "AreaChart" -> AreaSteps
      [] f.kind = "Quadrant1Graph" -> Quadrant1Steps
      [] f.kind = "CartesianGraph" -> CartesianSteps
      [] f.kind = "Histogram" -> HistogramSteps
      [] f.kind = "GroupBarChart" /\ f.orientation = "Vertical" -> GroupBarSteps
      [] f.kind = "GroupBarChart" /\ f.orientation = "Horizontal" -> GroupBarHorizontalSteps
      [] f.kind = "PieChart" -> PieSteps(f)

\* One step of a draw on the canvas the steps before it left.
DrawStep(cv, f, s) ==
    CASE s = "clear" -> clear(cv)
      [] s = "title" -> draw_title(cv, TRUE)
      [] s = "grid" ->
            IF f.kind = "GroupBarChart" THEN Drawer_draw_grid(cv, f.grid)
            ELSE draw_grid(cv, <<f.grid[1], f.grid[2]>>, ColorGrid)
      [] s = "labels" ->
            IF f.kind = "CartesianGraph" THEN draw_labels_cartesian(cv, CartesianScales(f))
            ELSE draw_label(draw_label(cv, TRUE), TRUE)
      [] s = "ticks" -> draw_ticks_y(cv, margin, 10)
      [] s = "ticks_x" ->
            IF f.kind = "Histogram" THEN HistogramTicksX(cv, f, HistogramScales(f), 0)
            ELSE cv
      [] s = "ticks_y" ->
            IF f.kind = "GroupBarChart" THEN draw_ticks_y(cv, margin, 5)
            ELSE IF f.kind = "Histogram" THEN HistogramTicksY(cv, f, HistogramScales(f), 0)
            ELSE IF f.kind = "Quadrant1Graph"
            THEN draw_ticks_y(cv, Quadrant1Geometry(f).origin_x, 10)
            ELSE draw_ticks_y(cv, OrderGeometry(f).origin_x, 10)
      [] s = "data" ->
            IF f.kind = "ScatterGraph"
            THEN ScatterPasses(cv, f, Len(FlatPoints(f.datasets)))
            ELSE IF f.kind = "AreaChart" THEN AreaPasses(cv, f, 1)
            ELSE IF f.kind = "Quadrant1Graph"
            THEN Quadrant1Lines(cv, f, Quadrant1Geometry(f), 1, 1)
            ELSE IF f.kind = "Histogram" THEN HistogramData(cv, f)
            ELSE IF f.kind = "CartesianGraph"
            THEN CartesianLines(cv, f, CartesianScales(f), 1, 1)
            ELSE IF f.kind = "PieChart" THEN PieSlices(cv, f, 1, 0)
            ELSE IF f.orientation = "Horizontal" THEN GroupBarsHorizontal(cv, f, 0, 0)
            ELSE GroupBars(cv, f, 0, 0)
      [] s = "axes" ->
            IF f.kind = "GroupBarChart" /\ f.orientation = "Horizontal"
            THEN draw_axes_horizontal(cv)
            ELSE IF f.kind = "CartesianGraph" THEN draw_axes_cartesian(cv)
            ELSE draw_axes(cv)
      [] s = "legend" -> draw_legend(cv, f)

\* The steps of todo run in turn until one panics: the steps begun and the
\* buffer each of them left.  The canvas a step leaves is computed once and
\* handed on as a value.
RECURSIVE RunSteps(_, _, _, _, _)
RunSteps(cv, f, todo, steps, shots) ==
    IF todo = <<>> \/ cv.panicked THEN [canvas |-> cv, steps |-> steps, shots |-> shots]
    ELSE CHOOSE run \in {RunSteps(after, f, Tail(todo), Append(steps, Head(todo)),
                                  Append(shots, after.buffer)) :
                            after \in {DrawStep(cv, f, Head(todo))}} : TRUE

\* Drawer::draw.
draw(cv, f) == RunSteps(cv, f, DrawSteps(f), <<>>, <<>>)

\* self after a draw that began the steps: the draw of a CartesianGraph
\* stores the symmetric x range once the grid is painted.
AfterDraw(f, steps) ==
    IF f.kind = "CartesianGraph" /\ \E i \in 1..Len(steps) : steps[i] = "axes"
    THEN [f EXCEPT !.range = CartesianSymmetricX(f.range)]
    ELSE f

\* The points of the datasets of a CartesianGraph: a diagonal, a wedge of
\* two windows, and two that lie beside or below the origin.
CartesianPointVecs ==
    [diagonal |-> <<<<0 - 1, 0 - 1>>, <<1, 1>>>>,
     wedge |-> <<<<0 - 1, 1>>, <<0, 0 - 1>>, <<1, 1>>>>,
     beside |-> <<<<0, 0>>, <<1, 1>>>>,
     below |-> <<<<0, 0 - 2>>, <<1, 0 - 1>>>>]

\* The datasets handed to the add_dataset of a CartesianGraph, call by call:
\* none, one, two, and two of which the first is empty, so that no
\* update_range makes the range symmetric.
CartesianVecLists ==
    {<<>>, <<CartesianPointVecs.diagonal>>, <<CartesianPointVecs.wedge>>,
     <<CartesianPointVecs.diagonal, CartesianPointVecs.wedge>>,
     <<<<>>, CartesianPointVecs.beside>>, <<<<>>, CartesianPointVecs.below>>}

\* CartesianGraph::new and the add_dataset calls.  figuretypes/
\* cartesiangraph.rs is not among the sources: the range is taken to be the
\* one LineGraph, the figure with the same fields, has after the same calls,
\* each add_dataset updating the range the one before left.
CartesianFigure(vs, g) ==
    LET datasets == [i \in 1..Len(vs) |-> [points |-> vs[i], color |-> DatasetColor(i)]]
    IN  [op |-> "new", kind |-> "CartesianGraph", datasets |-> datasets, grid |-> g,
         range |-> RangeAdded(datasets, Len(datasets)),
         steps |-> <<>>, shots |-> <<>>]

\* The data handed to the add_data_vec of a Histogram of b bins, as
\* <<b, data>>: one bin, two bins without data, and two and four bins with
\* frequencies of which the largest is 1.0 or 2.0.
HistogramInputs ==
    {<<1, <<>>>>, <<2, <<>>>>, <<2, <<0, 2, 1, 0>>>>, <<4, <<0, 4, 1, 3, 3>>>>}

\* The figures whose draw is followed: the limits of a ScatterGraph, of an
\* AreaChart and of a Quadrant1Graph span a range that divides the extent
\* between the margins, the range of a CartesianGraph with points spans a
\* power of two, and y_max of a Histogram is 0.0 or a power of two.
OrderFigures ==
    {[op |-> "new", kind |-> "ScatterGraph", datasets |-> ds, grid |-> g,
      steps |-> <<>>, shots |-> <<>>] :
        ds \in UNION {OrderDatasets(ScatterVecLists, dot, <<1, 1>>, <<"Solid", 0, 0>>) :
                         dot \in DotTypes},
        g \in GridConfigs}
    \cup
    {[op |-> "new", kind |-> "AreaChart", datasets |-> ds, grid |-> g,
      steps |-> <<>>, shots |-> <<>>] :
        ds \in UNION {OrderDatasets(AreaVecLists, <<"Circle", 1>>, a, <<"Solid", 0, 0>>) :
                         a \in {<<1, 2>>, <<1, 1>>}},
        g \in GridConfigs}
    \cup
    {[op |-> "new", kind |-> "Quadrant1Graph", datasets |-> ds, grid |-> g,
      steps |-> <<>>, shots |-> <<>>] :
        ds \in UNION {OrderDatasets(Quadrant1VecLists, <<"Circle", 1>>, <<1, 1>>, t) :
                         t \in Quadrant1LineTypes},
        g \in GridConfigs}
    \cup
    {CartesianFigure(vs, g) : vs \in CartesianVecLists, g \in GridConfigs}
    \cup
    {[op |-> "new", kind |-> "Histogram", hist |-> add_data_vec(NewHistogram(h[1]), h[2]),
      color |-> DatasetColor(1), grid |-> g, steps |-> <<>>, shots |-> <<>>] :
        h \in HistogramInputs, g \in GridConfigs}
    \cup
    {[op |-> "new", kind |-> "GroupBarChart", orientation |-> o, datasets |-> ds,
      grid |-> g, steps |-> <<>>, shots |-> <<>>] :
        o \in {"Vertical", "Horizontal"},
        ds \in OrderDatasets(BarVecLists, <<"Circle", 1>>, <<1, 1>>, <<"Solid", 0, 0>>),
        g \in GridConfigs}
    \cup
    {[op |-> "new", kind |-> "PieChart",
      datasets |-> [i \in 1..Len(v) |-> [value |-> v[i], color |-> DatasetColor(i)]],
      steps |-> <<>>, shots |-> <<>>] : v \in PieValueVecs}

\* Whether the limits of the points of f span ranges that divide the extents
\* between the margins.
RangesDivide(f) ==
    IF f.kind \in {"GroupBarChart", "PieChart"} THEN TRUE
    ELSE IF f.kind = "CartesianGraph"
    THEN \/ ~RangeOfNumbers(f.range)
         \/ /\ CartesianScales(f).x_range \in {1, 2, 4}
            /\ CartesianScales(f).y_range \in {1, 2, 4}
    ELSE IF f.kind = "Histogram"
    THEN f.hist.bins \in {1, 2, 4} /\ HistogramScales(f).y_max \in {0, 1, 2, 4}
    ELSE IF f.kind = "Quadrant1Graph"
    THEN LET ax == Quadrant1Axis(f, 1)
             ay == Quadrant1Axis(f, 2)
         IN  /\ ax.max > ax.min /\ ax.n % (ax.max - ax.min) = 0
             /\ ay.max > ay.min /\ ay.n % (ay.max - ay.min) = 0
    ELSE LET ax == ScatterAxis(FlatPoints(f.datasets), ThisCanvas, 1)
             ay == ScatterAxis(FlatPoints(f.datasets), ThisCanvas, 2)
         IN  /\ ax.n % (ax.max - ax.min) = 0
             /\ ay.n % (ay.max - ay.min) = 0

\* The figure after an update_data that hands its first dataset other data:
\* the value 3.0 to a slice, one more 0.0 to the add_data of a Histogram
\* that got none this way yet, and otherwise the points of the last vector
\* of the figure's kind.
Updated(f) ==
    CASE f.kind = "PieChart" -> [f EXCEPT !.datasets[1].value = 3]
      [] f.kind = "ScatterGraph" ->
            [f EXCEPT !.datasets[1].points = OrderPointVecs.sunk]
      [] f.kind = "AreaChart" ->
            [f EXCEPT !.datasets[1].points = OrderPointVecs.spread]
      [] f.kind = "Quadrant1Graph" ->
            [f EXCEPT !.datasets[1].points = OrderPointVecs.falling]
      [] f.kind = "CartesianGraph" ->
            IF f.datasets = <<>> THEN f
            ELSE [f EXCEPT !.datasets[1].points = CartesianPointVecs.beside]
      [] f.kind = "Histogram" ->
            IF f.hist.op = "add_data" THEN f
            ELSE [f EXCEPT !.hist = add_data(f.hist, 0)]
      [] f.kind = "GroupBarChart" -> [f EXCEPT !.datasets[1].points = <<<<2, 1>>>>]

InitOrder ==
    /\ width \in (MaxW - 2)..MaxW
    /\ height \in (MaxH - 1)..MaxH
    /\ background_color = <<255, 255, 255>>
    /\ margin \in 0..MaxMargin
    /\ 2 * margin <= width /\ 2 * margin <= height
    /\ overflow_checks \in BOOLEAN
    /\ buffer = new(width, height)
    /\ panicked = FALSE
    /\ last = [op |-> "new", args |-> <<>>, color |-> background_color,
               alpha |-> <<0, 1>>, style |-> NoStyle, pre |-> <<>>,
               after |-> "none"]
    /\ svg = NoObject /\ graph = NoObject /\ dataset = NoObject
    /\ figure \in OrderFigures
    /\ RangesDivide(figure)

\* The state after the draw d of the figure f, made by the call op.
FinishOrder(op, f, d) ==
    /\ buffer' = d.canvas.buffer
    /\ panicked' = d.canvas.panicked
    /\ last' = Call(op, <<>>, ColorAxis, <<1, 1>>, NoStyle)
    /\ figure' = [AfterDraw(f, d.steps) EXCEPT !.op = "draw", !.steps = d.steps,
                                               !.shots = d.shots]
    /\ UNCHANGED <<width, height, background_color, margin, overflow_checks>>
    /\ UNCHANGED <<svg, graph, dataset>>

\* plot.draw(canvas): the draw of a figure on the canvas as the calls before
\* left it.
DrawFigure ==
    /\ ~panicked
    /\ \E d \in {draw(Here, figure)} : FinishOrder("draw", figure, d)

\* A frame of display_real_time, the first as any later one:
\* update_data(plot), then plot.draw(canvas) on the canvas the frame before
\* left.
Frame ==
    /\ ~panicked
    /\ RangesDivide(Updated(figure))
    /\ \E f \in {Updated(figure)} :
          \E d \in {draw(Here, f)} : FinishOrder("display_real_time", f, d)

NextOrder == DrawFigure \/ Frame

SpecOrder == InitOrder /\ [][NextOrder]_vars

\* ======================================================= Drawer::draw_svg
\* src/src/figure/drawers/*.rs: the draw_svg of the seven figures, as the
\* fragments it pushes onto svg_canvas.elements, through the methods of
\* SvgCanvas and through elements.push itself.  c is the canvas, of which
\* width, height and margin are read, and a figure is the record of the
\* fields its draw_svg reads.  Each draw_svg is two operators: the numbers it
\* computes before it draws, as a record g named after its variables, and
\* the fragments it pushes, given g.  Only the draw_svg of CartesianGraph
\* computes in u32 and usize and can panic.

\* An f64 of the data as an f64 of the SVG.
FromF64(v) ==
    CASE v[1] = "num" -> Whole(v[2])
      [] v[1] = "-0.0" -> Fin(0, 0, 1, TRUE)
      [] v[1] = "inf" -> FInf(FALSE)
      [] v[1] = "-inf" -> FInf(TRUE)
      [] OTHER -> FNaN

RECURSIVE Flatten(_)
Flatten(seqs) == IF seqs = <<>> THEN <<>> ELSE Head(seqs) \o Flatten(Tail(seqs))

\* .flat_map(|dataset| dataset.points.iter()): the points of every dataset.
SvgPoints(datasets) == Flatten([i \in 1..Len(datasets) |-> datasets[i].points])

\* .fold((f64::INFINITY, f64::NEG_INFINITY), |(min, max), x| (min.min(x),
\* max.max(x))) over the x (c = 1) or the y (c = 2) of the points.
RECURSIVE SvgFold(_, _, _)
SvgFold(acc, points, c) ==
    IF points = <<>> THEN acc
    ELSE SvgFold(<<FMin(acc[1], Whole(Head(points)[c])), FMax(acc[2], Whole(Head(points)[c]))>>,
                 Tail(points), c)

SvgLimits(datasets, c) == SvgFold(<<FInf(FALSE), FInf(TRUE)>>, SvgPoints(datasets), c)

\* The text of a tick value, as the tick loops push it.
SvgTickText(x, y, font_size, anchor, value) ==
    "<text x=\"" \o Fmt2(x) \o "\" y=\"" \o Fmt2(y) \o "\" font-size=\"" \o Fmt2(font_size)
        \o "\" text-anchor=\"" \o anchor \o "\" fill=\"black\">" \o Fmt1(value) \o "</text>"

\* The path of the tick marks of one axis.
SvgTickPath(d) == "<path d=\"" \o d \o "\" stroke=\"black\" stroke-width=\"1\" fill=\"none\"/>"

SvgMoveLine(x1, y1, x2, y2) ==
    "M " \o Fmt2(x1) \o "," \o Fmt2(y1) \o " L " \o Fmt2(x2) \o "," \o Fmt2(y2) \o " "

\* first + i as f64 * range / num_ticks as f64, the value of the i-th tick,
\* and low + i as f64 * extent / num_ticks as f64, where it stands.
TickValue(first, range, i, num_ticks) ==
    FAdd(first, FDiv(FMul(Whole(i), range), Whole(num_ticks)))

\* The "X-axis" loop of ScatterGraph, AreaChart, CartesianGraph and
\* Histogram: for i in 0..=num_ticks the text of the value, which starts at
\* first, then the path of the marks.  g is the numbers of the figure.
SvgTicksX(g, first, range, origin_y, num_ticks) ==
    LET x(i) == TickValue(g.margin, FSub(g.width, FMul(Whole(2), g.margin)), i, num_ticks)
        text_y == FAdd(FSub(g.height, g.margin), FMul(g.font_size, Real(3, 2)))
    IN  [i \in 1..(num_ticks + 1) |->
            SvgTickText(x(i - 1), text_y, g.font_size, "middle",
                        TickValue(first, range, i - 1, num_ticks))]
        \o <<SvgTickPath(PushAll("", [i \in 1..(num_ticks + 1) |->
                SvgMoveLine(x(i - 1), FSub(origin_y, Whole(5)),
                            x(i - 1), FAdd(origin_y, Whole(5)))]))>>

\* height - margin - i as f64 * (height - 2.0 * margin) / num_ticks as f64.
TickY(g, i, num_ticks) ==
    FSub(FSub(g.height, g.margin),
         FDiv(FMul(Whole(i), FSub(g.height, FMul(Whole(2), g.margin))), Whole(num_ticks)))

\* The "Y-axis" loop of the same figures and of the vertical GroupBarChart;
\* the texts stand at margin - back.
SvgTicksY(g, first, range, origin_x, num_ticks, back) ==
    [i \in 1..(num_ticks + 1) |->
        SvgTickText(FSub(g.margin, back),
                    FAdd(TickY(g, i - 1, num_ticks), FMul(g.font_size, Real(3, 10))),
                    g.font_size, "end", TickValue(first, range, i - 1, num_ticks))]
    \o <<SvgTickPath(PushAll("", [i \in 1..(num_ticks + 1) |->
            SvgMoveLine(FSub(origin_x, Whole(5)), TickY(g, i - 1, num_ticks),
                        FAdd(origin_x, Whole(5)), TickY(g, i - 1, num_ticks))]))>>

\* The rotated label of the y axis, at (x, y).
SvgRotated(x, y, font_size, label) ==
    "<text x=\"" \o x \o "\" y=\"" \o y \o "\" font-size=\"" \o font_size
        \o "\" text-anchor=\"middle\" fill=\"black\" transform=\"rotate(-90 "
        \o x \o " " \o y \o ")\">" \o label \o "</text>"

SvgRotatedLabel(g, label) ==
    SvgRotated(Fmt2(FDiv(g.margin, Whole(3))), Fmt2(FDiv(g.height, Whole(2))),
               Fmt2(FMul(g.font_size, Real(3, 2))), label)

\* One entry of a legend: the square and the label, in one string.
SvgLegendEntry(legend_x, legend_y, font_size, color, text_color, label) ==
    "<rect x=\"" \o Fmt2(legend_x) \o "\" y=\"" \o Fmt2(legend_y) \o "\" width=\""
        \o Fmt2(font_size) \o "\" height=\"" \o Fmt2(font_size) \o "\" fill=\""
        \o SvgRgb(color) \o "\"/>"
        \o "<text x=\"" \o Fmt2(FAdd(legend_x, FMul(font_size, Real(13, 10)))) \o "\" y=\""
        \o Fmt2(FSub(FAdd(legend_y, font_size), Whole(2))) \o "\" font-size=\""
        \o Fmt2(font_size) \o "\" fill=\"" \o text_color \o "\">" \o label \o "</text>"

\* The loop of a legend over the datasets from the i-th on: the string of
\* the entries and the legend_x it ends with.  colored is whether a label
\* is printed in the colour of its dataset.
RECURSIVE SvgLegendLoop(_, _, _, _, _, _, _)
SvgLegendLoop(datasets, i, legend_x, legend_y, font_size, colored, elements) ==
    IF i > Len(datasets) THEN [legend_x |-> legend_x, elements |-> elements]
    ELSE SvgLegendLoop(datasets, i + 1,
             FAdd(legend_x, FAdd(FMul(font_size, Whole(5)),
                                 FMul(FMul(Whole(Len(datasets[i].label)), font_size),
                                      Real(6, 10)))),
             legend_y, font_size, colored,
             elements \o SvgLegendEntry(legend_x, legend_y, font_size, datasets[i].color,
                                        IF colored THEN SvgRgb(datasets[i].color) ELSE "black",
                                        datasets[i].label))

\* The background of a legend whose loop started at legend_x_start and
\* ended as loop, then its entries.
SvgLegendOf(loop, x, y, legend_x_start, h) ==
    <<SvgRect(x, y, FAdd(FSub(loop.legend_x, legend_x_start), Whole(5)), h,
              "white", "black", Half(1), Half(1)),
      loop.elements>>

\* The legend in the bottom-left corner.
SvgLegend(datasets, g, colored) ==
    SvgLegendOf(SvgLegendLoop(datasets, 1, Whole(5),
                              FSub(g.height, FDiv(g.margin, Whole(2))), g.font_size, colored, ""),
                Whole(0), FSub(FSub(g.height, FDiv(g.margin, Whole(2))), Whole(5)),
                Whole(5), FAdd(g.font_size, Whole(10)))

\* The background and the title, which every draw_svg starts with.
SvgFrame(g, title, stroke_width) ==
    <<SvgRect(Whole(0), Whole(0), g.width, g.height, "white", "black", stroke_width, Whole(1)),
      SvgText(FDiv(g.width, Whole(2)), FDiv(g.margin, Whole(2)), title,
              FMul(g.font_size, Whole(2)), "black")>>

\* draw_grid over the extent between the margins.
SvgFigureGrid(g, num_ticks) ==
    SvgGridLines(g.margin, FSub(g.width, g.margin), g.margin, FSub(g.height, g.margin),
                 num_ticks, num_ticks, "lightgray")

\* The label of the x axis at the right margin, then that of the y axis.
SvgAxisLabels(g, f) ==
    <<SvgText(FSub(g.width, g.margin), FSub(g.height, FDiv(g.margin, Whole(2))), f.x_label,
              FMul(g.font_size, Real(3, 2)), "black"),
      SvgRotatedLabel(g, f.y_label)>>

\* margin + (x - x_min) * scale_x, and height - margin - (y - y_min) * scale_y.
SvgX(g, p) == FAdd(g.margin, FMul(FSub(Whole(p[1]), g.x_min), g.scale_x))
SvgY(g, p) == FSub(FSub(g.height, g.margin), FMul(FSub(Whole(p[2]), g.y_min), g.scale_y))

\* width, height, margin and font_size, which every draw_svg starts from,
\* with the limits it then computes.
SvgExtent(c, x_min, x_max, y_min, y_max) ==
    [width |-> Whole(c.width), height |-> Whole(c.height), margin |-> Whole(c.margin),
     font_size |-> Whole(12), x_min |-> x_min, x_max |-> x_max, y_min |-> y_min,
     y_max |-> y_max]

\* scale_x and scale_y over the f64 extent between the margins.
SvgScaled(e) ==
    [width |-> e.width, height |-> e.height, margin |-> e.margin, font_size |-> e.font_size,
     x_min |-> e.x_min, x_max |-> e.x_max, y_min |-> e.y_min, y_max |-> e.y_max,
     scale_x |-> FDiv(FSub(e.width, FMul(Whole(2), e.margin)), FSub(e.x_max, e.x_min)),
     scale_y |-> FDiv(FSub(e.height, FMul(Whole(2), e.margin)), FSub(e.y_max, e.y_min))]

\* The polygon of a Triangle dot.
SvgTriangle(x, top, left, bottom, right, color) ==
    "<polygon points=\"" \o x \o "," \o top \o " " \o left \o "," \o bottom \o " "
        \o right \o "," \o bottom \o "\" fill=\"" \o color \o "\"/>"

\* The fragments of one dot of a ScatterGraph, n being what the dot type
\* holds.
SvgDot(svg_x, svg_y, kind, n, color) ==
    CASE kind = "Circle" -> <<SvgCircle(svg_x, svg_y, n, color)>>
      [] kind = "Square" ->
            <<SvgRect(FSub(svg_x, FDiv(n, Whole(2))), FSub(svg_y, FDiv(n, Whole(2))), n, n,
                      color, "none", Whole(1), Whole(1))>>
      [] kind = "Cross" ->
            <<SvgLine(FSub(svg_x, n), svg_y, FAdd(svg_x, n), svg_y, color, Whole(2)),
              SvgLine(svg_x, FSub(svg_y, n), svg_x, FAdd(svg_y, n), color, Whole(2))>>
      [] kind = "Triangle" ->
            <<SvgTriangle(Fmt2(svg_x),
                          Fmt2(FSub(svg_y, FDiv(FMul(n, Real(866, 1000)), Whole(2)))),
                          Fmt2(FSub(svg_x, FDiv(n, Whole(2)))),
                          Fmt2(FAdd(svg_y, FDiv(FMul(n, Real(866, 1000)), Whole(2)))),
                          Fmt2(FAdd(svg_x, FDiv(n, Whole(2)))), color)>>

\* ScatterGraph::draw_svg: the numbers.
ScatterGeometry(xl, yl, c) == SvgScaled(SvgExtent(c, xl[1], xl[2], yl[1], yl[2]))

\* ScatterGraph::draw_svg: the fragments.
ScatterFragments(f, g, origin_x, origin_y) ==
    SvgFrame(g, f.title, Whole(1))
    \o SvgFigureGrid(g, 10)
    \o <<SvgLine(g.margin, origin_y, FSub(g.width, g.margin), origin_y, "black", Whole(2)),
         SvgLine(origin_x, g.margin, origin_x, FSub(g.height, g.margin), "black", Whole(2))>>
    \o SvgTicksX(g, g.x_min, FSub(g.x_max, g.x_min), origin_y, 10)
    \o SvgTicksY(g, g.y_min, FSub(g.y_max, g.y_min), origin_x, 10, Whole(5))
    \o SvgAxisLabels(g, f)
    \o Flatten([i \in 1..Len(f.datasets) |->
          Flatten([k \in 1..Len(f.datasets[i].points) |->
             SvgDot(SvgX(g, f.datasets[i].points[k]), SvgY(g, f.datasets[i].points[k]),
                    f.datasets[i].dot_type[1], Whole(f.datasets[i].dot_type[2]),
                    SvgRgb(f.datasets[i].color))])])
    \o SvgLegend(f.datasets, g, TRUE)

ScatterDrawn(f, g) ==
    ScatterFragments(f, g, FSub(g.margin, FMul(g.x_min, g.scale_x)),
                     FAdd(FSub(g.height, g.margin), FMul(g.y_min, g.scale_y)))

ScatterGraph_draw_svg(f, c) ==
    ScatterDrawn(f, ScatterGeometry(SvgLimits(f.datasets, 1), SvgLimits(f.datasets, 2), c))

\* The path of one dataset of an AreaChart, rgb being its colour with ", "
\* between the channels.
SvgAreaPath(path_data, rgb) ==
    "<path d=\"" \o path_data \o "\" fill=\"rgba(" \o rgb \o ", 0.5)\" stroke=\"rgb("
        \o rgb \o ")\" stroke-width=\"1\"/>"

SvgAreaPathData(points, g, origin_y) ==
    (IF points = <<>> THEN ""
     ELSE "M " \o Fmt2(SvgX(g, points[1])) \o "," \o origin_y \o " ")
    \o PushAll("", [k \in 1..Len(points) |->
           "L " \o Fmt2(SvgX(g, points[k])) \o "," \o Fmt2(SvgY(g, points[k])) \o " "])
    \o (IF points = <<>> THEN ""
        ELSE "L " \o Fmt2(SvgX(g, points[Len(points)])) \o "," \o origin_y \o " Z")

\* The origin of AreaChart and CartesianGraph: where 0.0 stands.
SvgZeroX(g) == FAdd(g.margin, FMul(FSub(Whole(0), g.x_min), g.scale_x))
SvgZeroY(g) == FSub(FSub(g.height, g.margin), FMul(FSub(Whole(0), g.y_min), g.scale_y))

\* AreaChart::draw_svg: the numbers, x_min and y_min being no more than 0.0.
AreaGeometry(xl, yl, c) ==
    SvgScaled(SvgExtent(c, FMin(xl[1], Whole(0)), xl[2], FMin(yl[1], Whole(0)), yl[2]))

\* AreaChart::draw_svg: the fragments.
AreaFragments(f, g, origin_x, origin_y) ==
    SvgFrame(g, f.title, Whole(1))
    \o SvgFigureGrid(g, 10)
    \o <<SvgLine(g.margin, origin_y, FSub(g.width, g.margin), origin_y, "black", Whole(2)),
         SvgLine(origin_x, g.margin, origin_x, FSub(g.height, g.margin), "black", Whole(2))>>
    \o SvgTicksX(g, g.x_min, FSub(g.x_max, g.x_min), origin_y, 10)
    \o SvgTicksY(g, g.y_min, FSub(g.y_max, g.y_min), origin_x, 10, Whole(5))
    \o SvgAxisLabels(g, f)
    \o [i \in 1..Len(f.datasets) |->
          SvgAreaPath(SvgAreaPathData(f.datasets[i].points, g, Fmt2(origin_y)),
                      ToString(f.datasets[i].color[1]) \o ", "
                         \o ToString(f.datasets[i].color[2]) \o ", "
                         \o ToString(f.datasets[i].color[3]))]
    \o SvgLegend(f.datasets, g, TRUE)

AreaDrawn(f, g) == AreaFragments(f, g, SvgZeroX(g), SvgZeroY(g))

AreaChart_draw_svg(f, c) ==
    AreaDrawn(f, AreaGeometry(SvgLimits(f.datasets, 1), SvgLimits(f.datasets, 2), c))

\* Quadrant1Graph::draw_svg: the fragments; the numbers are those of a
\* ScatterGraph.
Quadrant1Fragments(f, g) ==
    SvgFrame(g, f.title, Whole(1))
    \o SvgFigureGrid(g, 10)
    \o <<SvgLine(g.margin, FSub(g.height, g.margin), FSub(g.width, g.margin),
                 FSub(g.height, g.margin), "black", Whole(2)),
         SvgLine(g.margin, g.margin, g.margin, FSub(g.height, g.margin), "black", Whole(2))>>
    \o [i \in 1..11 |->
           SvgText(TickValue(g.margin, FSub(g.width, FMul(Whole(2), g.margin)), i - 1, 10),
                   FAdd(FSub(g.height, g.margin), FMul(g.font_size, Real(3, 2))),
                   Fmt1(TickValue(g.x_min, FSub(g.x_max, g.x_min), i - 1, 10)),
                   g.font_size, "black")]
    \o [i \in 1..11 |->
           SvgText(FSub(g.margin, FMul(g.font_size, Whole(2))), TickY(g, i - 1, 10),
                   Fmt1(TickValue(g.y_min, FSub(g.y_max, g.y_min), i - 1, 10)),
                   g.font_size, "black")]
    \o SvgAxisLabels(g, f)
    \o Flatten([i \in 1..Len(f.datasets) |->
          [k \in 1..(Len(f.datasets[i].points) - 1) |->
              SvgLine(SvgX(g, f.datasets[i].points[k]), SvgY(g, f.datasets[i].points[k]),
                      SvgX(g, f.datasets[i].points[k + 1]),
                      SvgY(g, f.datasets[i].points[k + 1]),
                      SvgRgb(f.datasets[i].color), Real(3, 2))]
          \o [k \in 1..Len(f.datasets[i].points) |->
              SvgCircle(SvgX(g, f.datasets[i].points[k]), SvgY(g, f.datasets[i].points[k]),
                        Whole(3), "black")]])
    \o SvgLegend(f.datasets, g, TRUE)

Quadrant1Graph_draw_svg(f, c) ==
    Quadrant1Fragments(f, ScatterGeometry(SvgLimits(f.datasets, 1), SvgLimits(f.datasets, 2), c))

\* The loop of the legend of a CartesianGraph: legend_x += font_size *
\* (dataset.label.len() - 1) as f64.  The usize difference of an empty label
\* wraps to 2^64 - 1 where it does not panic, which `as f64` rounds to 2^64.
RECURSIVE CartesianLegendLoop(_, _, _, _, _, _)
CartesianLegendLoop(datasets, i, legend_x, legend_y, font_size, elements) ==
    IF i > Len(datasets) THEN [legend_x |-> legend_x, elements |-> elements]
    ELSE CartesianLegendLoop(datasets, i + 1,
             FAdd(legend_x, IF datasets[i].label = "" THEN FBig
                            ELSE FMul(font_size, Whole(Len(datasets[i].label) - 1))),
             legend_y, font_size,
             elements \o SvgLegendEntry(legend_x, legend_y, font_size, datasets[i].color,
                                        SvgRgb(datasets[i].color), datasets[i].label))

\* (svg_canvas.width - 2 * svg_canvas.margin), a u32, and whether it
\* overflowed.
U32Between(extent, m) ==
    LET twice == MulU32(AsU32(m), 2)
        n == SubU32(AsU32(extent), twice.val)
    IN  [val |-> n.val, ovf |-> twice.ovf \/ n.ovf]

\* CartesianGraph::draw_svg: the numbers, r being the range after
\* self.update_range() and nx and ny the u32 extents between the margins.
CartesianGeometry(r, nx, ny, c) ==
    LET e == SvgExtent(c, FromF64(r.x_min), FromF64(r.x_max), FromF64(r.y_min),
                       FromF64(r.y_max))
    IN  [width |-> e.width, height |-> e.height, margin |-> e.margin,
         font_size |-> e.font_size,
         x_min |-> e.x_min, x_max |-> e.x_max, y_min |-> e.y_min, y_max |-> e.y_max,
         scale_x |-> FDiv(U32AsF64(nx.val), FSub(e.x_max, e.x_min)),
         scale_y |-> FDiv(U32AsF64(ny.val), FSub(e.y_max, e.y_min)),
         overflow |-> nx.ovf \/ ny.ovf]

\* CartesianGraph::draw_svg: the fragments from the grid to the lines of
\* the datasets.
CartesianFragments(f, g, center_x, center_y) ==
    SvgFigureGrid(g, 20)
    \o <<SvgLine(g.margin, center_y, FSub(g.width, g.margin), center_y, "black", Whole(2)),
         SvgLine(center_x, g.margin, center_x, FSub(g.height, g.margin), "black", Whole(2))>>
    \o SvgTicksX(g, g.x_min, FSub(g.x_max, g.x_min), center_y, 20)
    \o SvgTicksY(g, g.y_min, FSub(g.y_max, g.y_min), center_x, 20, Whole(5))
    \o <<SvgText(FDiv(g.width, Whole(2)), FSub(g.height, FDiv(g.margin, Whole(3))),
                 f.x_label, FMul(g.font_size, Real(3, 2)), "black"),
         SvgRotatedLabel(g, f.y_label)>>
    \o Flatten([i \in 1..Len(f.datasets) |->
          [k \in 1..(Len(f.datasets[i].points) - 1) |->
              SvgLine(SvgX(g, f.datasets[i].points[k]), SvgY(g, f.datasets[i].points[k]),
                      SvgX(g, f.datasets[i].points[k + 1]),
                      SvgY(g, f.datasets[i].points[k + 1]),
                      SvgRgb(f.datasets[i].color), Whole(2))]])

\* The legend of a CartesianGraph, in the top-left corner.
CartesianLegend(f, g) ==
    SvgLegendOf(CartesianLegendLoop(f.datasets, 1, FAdd(g.margin, Whole(5)), g.margin,
                                    g.font_size, ""),
                g.margin, FSub(g.margin, Whole(10)), g.margin, FAdd(g.font_size, Whole(20)))

\* With overflow checks the call panics where a difference underflows, with
\* the fragments pushed until then.
CartesianDrawn(f, g, checks) ==
    IF checks /\ g.overflow
    THEN [elements |-> SvgFrame(g, f.title, Whole(2)), panicked |-> TRUE]
    ELSE IF checks /\ \E i \in 1..Len(f.datasets) : f.datasets[i].label = ""
    THEN [elements |-> SvgFrame(g, f.title, Whole(2))
                          \o CartesianFragments(f, g, SvgZeroX(g), SvgZeroY(g)),
          panicked |-> TRUE]
    ELSE [elements |-> SvgFrame(g, f.title, Whole(2))
                          \o CartesianFragments(f, g, SvgZeroX(g), SvgZeroY(g))
                          \o CartesianLegend(f, g),
          panicked |-> FALSE]

\* CartesianGraph::draw_svg.  figuretypes/cartesiangraph.rs is not among the
\* sources: the update_range it calls is taken to be that of LineGraph, the
\* figure with the same fields.
CartesianGraph_draw_svg(f, c, checks) ==
    CartesianDrawn(f,
                   CartesianGeometry(LineGraph_update_range(f.range, AsF64Datasets(f.datasets)),
                                     U32Between(c.width, c.margin),
                                     U32Between(c.height, c.margin), c),
                   checks)

\* self.bin_width of a Histogram as an f64 of the SVG.
FromBinWidth(bw) ==
    CASE bw.class = "finite" -> Real(bw.num, bw.den)
      [] bw.class = "inf" -> FInf(FALSE)
      [] OTHER -> FNaN

\* .fold(0.0, f64::max) over whole numbers.
RECURSIVE FoldMax(_, _)
FoldMax(acc, values) ==
    IF values = <<>> THEN acc ELSE FoldMax(FMax(acc, Whole(Head(values))), Tail(values))

\* Histogram::draw_svg: the numbers; x_min and x_max are self.min and
\* self.max, and the counts start at 0.0.
HistogramGeometry(hist, c) ==
    SvgScaled(SvgExtent(c, FromF64(hist.min), FromF64(hist.max), Whole(0),
                        FoldMax(Whole(0), hist.bin_counts)))

\* margin + (bin - self.min) * scale_x.
SvgHistX(g, bin) == FAdd(g.margin, FMul(FSub(bin, g.x_min), g.scale_x))

\* The bar of the bin that starts at bin_start.
HistogramBar(g, bin_start, bin_width, count, color) ==
    SvgRect(SvgHistX(g, bin_start),
            FSub(FSub(g.height, g.margin), FMul(count, g.scale_y)),
            FSub(SvgHistX(g, FAdd(bin_start, bin_width)), SvgHistX(g, bin_start)),
            FMul(count, g.scale_y), color, "black", Whole(1), Whole(1))

\* Histogram::draw_svg: the fragments.  The first tick of the x axis is
\* valued self.max.
HistogramFragments(f, g, bin_width) ==
    SvgFrame(g, f.title, Whole(1))
    \o SvgFigureGrid(g, 10)
    \o <<SvgLine(g.margin, FSub(g.height, g.margin), FSub(g.width, g.margin),
                 FSub(g.height, g.margin), "black", Whole(2)),
         SvgLine(g.margin, g.margin, g.margin, FSub(g.height, g.margin), "black", Whole(2))>>
    \o SvgTicksX(g, g.x_max, FSub(g.x_max, g.x_min), FSub(g.height, g.margin), 10)
    \o SvgTicksY(g, Whole(0), FSub(g.y_max, Whole(0)), g.margin, 10, Whole(5))
    \o <<SvgText(FDiv(g.width, Whole(2)), FSub(g.height, FDiv(g.margin, Whole(4))), f.x_label,
                 FMul(g.font_size, Real(3, 2)), "black"),
         SvgRotatedLabel(g, f.y_label)>>
    \o [i \in 1..Len(f.hist.bin_counts) |->
           HistogramBar(g, FAdd(g.x_min, FMul(Whole(i - 1), bin_width)), bin_width,
                        Whole(f.hist.bin_counts[i]), SvgRgb(f.color))]

\* Histogram::draw_svg; f.hist is the Histogram.
Histogram_draw_svg(f, c) ==
    HistogramFragments(f, HistogramGeometry(f.hist, c), FromBinWidth(f.hist.bin_width))

\* The bar of a GroupBarChart.
SvgBar(x, y, w, h, color) ==
    "<rect x=\"" \o Fmt2(x) \o "\" y=\"" \o Fmt2(y) \o "\" width=\"" \o Fmt2(w)
        \o "\" height=\"" \o Fmt2(h) \o "\" fill=\"" \o SvgRgb(color)
        \o "\" stroke=\"black\" stroke-width=\"1\"/>"

\* GroupBarChart::draw_svg: the numbers.  count is the number of unique
\* first coordinates and y_max the fold of the second ones from 0.0; the
\* scale along the groups divides by count and the other by y_max.
BarGeometry(f, count, value_max, c) ==
    LET e == SvgExtent(c, Whole(0), Whole(0), Whole(0), value_max)
        across == FSub(e.width, FMul(Whole(2), e.margin))
        along == FSub(e.height, FMul(Whole(2), e.margin))
        vertical == f.orientation = "Vertical"
    IN  [width |-> e.width, height |-> e.height, margin |-> e.margin,
         font_size |-> e.font_size, y_max |-> value_max,
         scale_x |-> FDiv(across, IF vertical THEN count ELSE value_max),
         scale_y |-> FDiv(along, IF vertical THEN value_max ELSE count)]

\* The bars of the group at center, of the x value x_label: one for each
\* dataset that has an entry at x_label.
BarsOfGroup(f, g, x_label, center, group, bar) ==
    Flatten([d \in 1..Len(f.datasets) |->
        IF FindX(f.datasets[d].points, x_label) = <<>> THEN <<>>
        ELSE IF f.orientation = "Vertical"
        THEN <<SvgBar(FAdd(FSub(center, FDiv(group, Whole(2))), FMul(Whole(d - 1), bar)),
                      FSub(FSub(g.height, g.margin),
                           FMul(Whole(FindX(f.datasets[d].points, x_label)[1][2]), g.scale_y)),
                      bar,
                      FMul(Whole(FindX(f.datasets[d].points, x_label)[1][2]), g.scale_y),
                      f.datasets[d].color)>>
        ELSE <<SvgBar(g.margin,
                      FAdd(FSub(center, FDiv(group, Whole(2))), FMul(Whole(d - 1), bar)),
                      FMul(Whole(FindX(f.datasets[d].points, x_label)[1][2]), g.scale_x),
                      bar, f.datasets[d].color)>>])

\* The label of each group, then its bars; group is the extent of a group
\* and bar that of a bar.
BarGroups(f, g, unique, group, bar) ==
    Flatten([i \in 1..Len(unique) |->
        IF f.orientation = "Vertical"
        THEN <<SvgText(FAdd(g.margin, FMul(FAdd(Whole(i - 1), Real(4, 10)), g.scale_x)),
                       FAdd(FSub(g.height, g.margin), FMul(g.font_size, Real(3, 2))),
                       ToString(unique[i]), g.font_size, "black")>>
             \o BarsOfGroup(f, g, unique[i],
                            FAdd(g.margin, FMul(FAdd(Whole(i - 1), Real(4, 10)), g.scale_x)),
                            group, bar)
        ELSE <<SvgText(FSub(g.margin, FMul(g.font_size, Whole(3))),
                       FSub(FSub(g.height, g.margin),
                            FMul(FAdd(Whole(i - 1), Real(5, 10)), g.scale_y)),
                       ToString(unique[i]), g.font_size, "black")>>
             \o BarsOfGroup(f, g, unique[i],
                            FSub(FSub(g.height, g.margin),
                                 FMul(FAdd(Whole(i - 1), Real(5, 10)), g.scale_y)),
                            group, bar)])

\* The tick of the value value_x on the x axis of a horizontal chart, whose
\* text stands at x.
BarTickX(g, value_x, x) ==
    <<SvgLine(FAdd(g.margin, FMul(value_x, g.scale_x)), FSub(g.height, g.margin),
              FAdd(g.margin, FMul(value_x, g.scale_x)),
              FAdd(FSub(g.height, g.margin), Whole(5)), "black", Whole(1)),
      SvgText(x, FAdd(FSub(g.height, g.margin), FMul(g.font_size, Real(3, 2))), Fmt1(value_x),
              g.font_size, "black")>>

\* GroupBarChart::draw_svg: the fragments, of either orientation.  The first
\* coordinates of the data are whole numbers from 0 on, which `as u32`
\* leaves as they are.
BarFragments(f, g, unique, group) ==
    SvgFrame(g, f.title, Whole(1))
    \o SvgFigureGrid(g, 10)
    \o <<SvgLine(g.margin, g.margin, g.margin, FSub(g.height, g.margin), "black", Whole(2)),
         SvgLine(g.margin, FSub(g.height, g.margin), FSub(g.width, g.margin),
                 FSub(g.height, g.margin), "black", Whole(2))>>
    \o (IF f.orientation = "Vertical"
        THEN SvgTicksY(g, Whole(0), FSub(g.y_max, Whole(0)), g.margin, 10, Whole(10))
        ELSE Flatten([i \in 1..11 |->
                BarTickX(g, FMul(Whole(i - 1), FDiv(g.y_max, Whole(10))),
                         TickValue(g.margin, FSub(g.width, FMul(Whole(2), g.margin)),
                                   i - 1, 10))]))
    \o BarGroups(f, g, unique, group, FDiv(group, Whole(Len(f.datasets))))
    \o SvgLegend(f.datasets, g, FALSE)

BarDrawn(f, g, unique) ==
    BarFragments(f, g, unique,
                 FMul(IF f.orientation = "Vertical" THEN g.scale_x ELSE g.scale_y, Real(8, 10)))

BarValues(points) == [k \in 1..Len(points) |-> points[k][2]]

GroupBarChart_draw_svg(f, c) ==
    BarDrawn(f,
             BarGeometry(f, Whole(Len(unique_x_values(f))),
                         FoldMax(Whole(0), BarValues(SvgPoints(f.datasets))), c),
             unique_x_values(f))

\* A value between lo and hi, and the value that is known.
Within(lo, hi) == [lo |-> lo, hi |-> hi]
Exactly(v) == Within(v, v)

\* The square root of 1 / 2 lies between two of the fractions that come
\* closest to it, 13860 / 19601 and 33461 / 47321, less than 10^-9 apart;
\* so does the f64 next to it.
HalfRootLow == Real(13860, 19601)
HalfRootHigh == Real(33461, 47321)
HalfRoot == Within(HalfRootLow, HalfRootHigh)
MinusHalfRoot == Within(FNeg(HalfRootHigh), FNeg(HalfRootLow))

\* cos and sin of the angle of t turns, t a multiple of 1 / 8 from 0 to 1,
\* as f64 computes them from t * 2.0 * PI.  Where the function is 0 the f64
\* is next to 0.0 and prints as 0.00 or as -0.00.
PieTrigTable ==
    <<<<Exactly(Whole(1)), Exactly(Whole(0))>>,
      <<HalfRoot, HalfRoot>>,
      <<Exactly(Whole(0)), Exactly(Whole(1))>>,
      <<MinusHalfRoot, HalfRoot>>,
      <<Exactly(Whole(0 - 1)), Exactly(Whole(0))>>,
      <<MinusHalfRoot, MinusHalfRoot>>,
      <<Exactly(Fin(0, 0, 1, TRUE)), Exactly(Whole(0 - 1))>>,
      <<HalfRoot, MinusHalfRoot>>,
      <<Exactly(Whole(1)), Exactly(Fin(0, 0, 1, TRUE))>>>>

PieTrig(t) ==
    IF t.k = "nan" THEN <<Exactly(FNaN), Exactly(FNaN)>>
    ELSE CASE t.k = "fin" /\ t.a = 0 /\ 8 % t.d = 0 /\ t.b \in 0..t.d ->
            PieTrigTable[(t.b * 8) \div t.d + 1]

\* format!("{:.2}", r * v) for a v between v.lo and v.hi: the text when it
\* is the same for both, as it then is for every value between them.
Fmt2Times(r, v) ==
    CASE Fmt2(FMul(r, v.lo)) = Fmt2(FMul(r, v.hi)) -> Fmt2(FMul(r, v.lo))

\* The path of a slice from p1 to p2, and the text of its share at pm.
SvgSlice(radius, p1, p2, pm, large_arc_flag, share, font_size, color) ==
    <<"<path d=\"M 0 0 L " \o Fmt2Times(radius, p1[1]) \o " " \o Fmt2Times(radius, p1[2])
         \o " A " \o Fmt2(radius) \o " " \o Fmt2(radius) \o " 0 " \o large_arc_flag \o " 1 "
         \o Fmt2Times(radius, p2[1]) \o " " \o Fmt2Times(radius, p2[2])
         \o " Z\" fill=\"" \o SvgRgb(color) \o "\"/>",
      "<text x=\"" \o Fmt2Times(FMul(radius, Real(6, 10)), pm[1]) \o "\" y=\""
         \o Fmt2Times(FMul(radius, Real(6, 10)), pm[2]) \o "\" font-size=\""
         \o Fmt2(font_size)
         \o "\" fill=\"black\" text-anchor=\"middle\" alignment-baseline=\"middle\">"
         \o Fmt1(share) \o "%</text>">>

\* The loop of PieChart::draw_svg over the slices from the i-th on,
\* start_angle being in turns.
RECURSIVE SvgSlices(_, _, _, _, _, _)
SvgSlices(datasets, i, start_angle, total, radius, font_size) ==
    IF i > Len(datasets) THEN <<>>
    ELSE SvgSlice(radius, PieTrig(start_angle),
                  PieTrig(FAdd(start_angle, FDiv(Whole(datasets[i].value), total))),
                  PieTrig(FAdd(start_angle,
                               FDiv(FDiv(Whole(datasets[i].value), total), Whole(2)))),
                  IF FLt(Real(1, 2), FDiv(Whole(datasets[i].value), total)) THEN "1" ELSE "0",
                  FMul(FDiv(Whole(datasets[i].value), total), Whole(100)),
                  font_size, datasets[i].color)
         \o SvgSlices(datasets, i + 1,
                      FAdd(start_angle, FDiv(Whole(datasets[i].value), total)),
                      total, radius, font_size)

\* PieChart::draw_svg: the fragments.
PieFragments(f, g, radius) ==
    SvgFrame(g, f.title, Whole(1))
    \o <<"<g transform=\"translate(" \o Fmt2(FDiv(g.width, Whole(2))) \o ","
            \o Fmt2(FDiv(g.height, Whole(2))) \o ")\" stroke=\"black\" stroke-width=\"1\">">>
    \o SvgSlices(f.datasets, 1, Whole(0), Whole(PieTotal(f.datasets)), radius, g.font_size)
    \o <<"</g>">>
    \o SvgLegend(f.datasets, g, FALSE)

PieDrawn(f, g) ==
    PieFragments(f, g, FDiv(FSub(FMin(g.width, g.height), FMul(Whole(2), g.margin)), Whole(2)))

PieChart_draw_svg(f, c) == PieDrawn(f, SvgExtent(c, Whole(0), Whole(0), Whole(0), Whole(0)))

\* Drawer::draw_svg: the fragments the call pushes and whether it panicked.
draw_svg(f, c, checks) ==
    CASE f.kind = "ScatterGraph" -> [elements |-> ScatterGraph_draw_svg(f, c), panicked |-> FALSE]
      [] f.kind = "AreaChart" -> [elements |-> AreaChart_draw_svg(f, c), panicked |-> FALSE]
      [] f.kind = "Quadrant1Graph" ->
            [elements |-> Quadrant1Graph_draw_svg(f, c), panicked |-> FALSE]
      [] f.kind = "CartesianGraph" -> CartesianGraph_draw_svg(f, c, checks)
      [] f.kind = "Histogram" -> [elements |-> Histogram_draw_svg(f, c), panicked |-> FALSE]
      [] f.kind = "GroupBarChart" ->
            [elements |-> GroupBarChart_draw_svg(f, c), panicked |-> FALSE]
      [] f.kind = "PieChart" -> [elements |-> PieChart_draw_svg(f, c), panicked |-> FALSE]

\* ------------------------------------------------ the figures drawn
\* The figures whose draw_svg is followed.  Every coordinate of a point is a
\* whole number; the i-th dataset has the i-th colour and the i-th label.
SvgLabels == <<"a", "bc">>

SvgPointVecs == {<<<<0, 0>>, <<1, 1>>>>, <<<<1, 1>>>>, <<<<0 - 1, 0>>, <<1, 2>>>>}

\* The points of a dataset that Quadrant1Graph::add_dataset has filtered.
SvgQuadrant1Vecs == {<<<<0, 0>>, <<1, 1>>>>, <<<<1, 1>>>>, <<<<1, 2>>>>}

\* The lists of point vectors of the datasets of a figure: none, one, and
\* one list of two.
SvgVecLists(vecs, both) == {<<>>} \cup {<<v>> : v \in vecs} \cup {both}

SvgDatasets(vs, labels) ==
    [i \in 1..Len(vs) |-> [points |-> vs[i], color |-> DatasetColor(i), label |-> labels[i]]]

SvgFigure(kind, datasets) ==
    [op |-> "new", kind |-> kind, title |-> "Title", x_label |-> "x", y_label |-> "y",
     datasets |-> datasets]

\* Histogram::new(bins) and one add_data_vec.
SvgHistograms ==
    {add_data_vec(NewHistogram(b[1]), b[2]) :
        b \in {<<0, <<>>>>, <<0, <<0, 1>>>>, <<1, <<>>>>, <<1, <<1>>>>, <<2, <<0, 1>>>>,
               <<2, <<0, 1, 2>>>>, <<4, <<0, 2, 3>>>>}}

SvgFigures ==
    {[SvgFigure("ScatterGraph", SvgDatasets(<<v>>, SvgLabels))
         EXCEPT !.datasets = [i \in 1..1 |-> [points |-> v, color |-> DatasetColor(1),
                                                label |-> "a", dot_type |-> dot]]] :
        v \in SvgPointVecs, dot \in DotTypes}
    \cup
    {SvgFigure("ScatterGraph", <<>>),
     SvgFigure("ScatterGraph",
               <<[points |-> <<<<0, 0>>, <<1, 1>>>>, color |-> DatasetColor(1), label |-> "a",
                  dot_type |-> <<"Circle", 1>>],
                 [points |-> <<<<0 - 1, 0>>, <<1, 2>>>>, color |-> DatasetColor(2),
                  label |-> "bc", dot_type |-> <<"Square", 2>>]>>)}
    \cup
    {SvgFigure("AreaChart", SvgDatasets(vs, SvgLabels)) :
        vs \in SvgVecLists(SvgPointVecs \cup {<<>>}, <<<<<<0, 0>>, <<1, 1>>>>, <<<<1, 1>>>>>>)}
    \cup
    {SvgFigure("Quadrant1Graph", SvgDatasets(vs, SvgLabels)) :
        vs \in SvgVecLists(SvgQuadrant1Vecs, <<<<<<0, 0>>, <<1, 1>>>>, <<<<1, 2>>>>>>)}
    \cup
    {[op |-> "new", kind |-> "CartesianGraph", title |-> "Title", x_label |-> "x",
      y_label |-> "y", datasets |-> SvgDatasets(vs, labels),
      range |-> RangeAdded(SvgDatasets(vs, labels), Len(vs))] :
        vs \in SvgVecLists(SvgPointVecs, <<<<<<0, 0>>, <<1, 1>>>>, <<<<0 - 1, 0>>, <<1, 2>>>>>>),
        labels \in {SvgLabels, <<"", "bc">>}}
    \cup
    {[op |-> "new", kind |-> "Histogram", title |-> "Title", x_label |-> "x",
      y_label |-> "y", color |-> DatasetColor(1), hist |-> h] : h \in SvgHistograms}
    \cup
    {[op |-> "new", kind |-> "GroupBarChart", orientation |-> o, title |-> "Title",
      x_label |-> "x", y_label |-> "y", datasets |-> SvgDatasets(vs, SvgLabels)] :
        o \in {"Vertical", "Horizontal"},
        vs \in SvgVecLists(BarDataVecs \cup {<<<<1, 2>>, <<2, 1>>>>},
                           <<<<<<1, 1>>, <<2, 1>>>>, <<<<2, 1>>>>>>)}
    \cup
    {[op |-> "new", kind |-> "PieChart", title |-> "Title",
      datasets |-> [i \in 1..Len(v) |->
                       [label |-> SvgLabels[i], value |-> v[i], color |-> DatasetColor(i)]]] :
        v \in PieValueVecs \cup {<<>>}}

\* ------------------------------------------------ the canvas and its calls
\* svg.elements is the Vec; svg.since is the fragments pushed since the last
\* clear (or since new), svg.text the text last emitted and svg.op the call
\* that emitted.  A drawing call is made while fewer than MaxElems fragments
\* have been pushed since the last clear, and a draw_svg while fewer than
\* MaxBefore have; draw_grid pushes four or five.  figure is the figure
\* whose draw_svg pushed fragments since the last clear, and panicked is
\* whether a draw_svg panicked, which ends the calls.
MaxBefore == 1

SvgInit ==
    /\ width = 1 /\ height = 1 /\ margin = 0
    /\ background_color = <<255, 255, 255>>
    /\ overflow_checks \in BOOLEAN
    /\ buffer = new(1, 1)
    /\ panicked = FALSE
    /\ last = [op |-> "new", args |-> <<>>, color |-> background_color,
               alpha |-> <<0, 1>>, style |-> NoStyle, pre |-> <<>>,
               after |-> "none"]
    /\ graph = NoObject /\ dataset = NoObject /\ figure = NoObject
    /\ \E w \in {1, MaxW}, h \in {1, MaxH}, m \in {0, MaxMargin} :
          svg = [op |-> "new", width |-> w, height |-> h, margin |-> m,
                 elements |-> <<SvgHeader(w, h)>>, since |-> <<>>, text |-> ""]

SvgDraw ==
    /\ ~panicked
    /\ svg.op # "none"
    /\ Len(svg.since) < MaxElems
    /\ \E call \in SvgCalls :
          /\ svg' = [svg EXCEPT !.op = call[1],
                                !.elements = svg.elements \o call[2],
                                !.since = svg.since \o call[2],
                                !.text = ""]
    /\ UNCHANGED <<canvasVars, graph, dataset, figure>>

\* self after draw_svg: that of a CartesianGraph calls self.update_range(),
\* before the first statement that may panic.
AfterDrawSvg(f) ==
    IF f.kind = "CartesianGraph"
    THEN [f EXCEPT !.range = LineGraph_update_range(f.range, AsF64Datasets(f.datasets))]
    ELSE f

FinishDrawSvg(f, d) ==
    /\ svg' = [svg EXCEPT !.op = "draw_svg",
                          !.elements = svg.elements \o d.elements,
                          !.since = svg.since \o d.elements,
                          !.text = ""]
    /\ panicked' = d.panicked
    /\ figure' = [AfterDrawSvg(f) EXCEPT !.op = "draw_svg"]
    /\ UNCHANGED <<width, height, background_color, buffer, margin, overflow_checks, last>>
    /\ UNCHANGED <<graph, dataset>>

\* figure.draw_svg(&mut svg_canvas).
DrawSvg ==
    /\ ~panicked
    /\ svg.op # "none"
    /\ Len(svg.since) < MaxBefore
    /\ \E f \in SvgFigures : FinishDrawSvg(f, draw_svg(f, svg, overflow_checks))

SvgClear ==
    /\ ~panicked
    /\ svg.op \notin {"none", "clear"}
    /\ svg' = [svg EXCEPT !.op = "clear", !.elements = <<>>, !.since = <<>>, !.text = ""]
    /\ figure' = NoObject
    /\ UNCHANGED <<canvasVars, graph, dataset>>

SvgGetText ==
    /\ ~panicked
    /\ svg.op \notin {"none", "get_svg_as_text", "save"}
    /\ svg' = [svg EXCEPT !.op = "get_svg_as_text", !.text = get_svg_as_text(svg.elements)]
    /\ UNCHANGED <<canvasVars, graph, dataset, figure>>

SvgSave ==
    /\ ~panicked
    /\ svg.op \notin {"none", "get_svg_as_text", "save"}
    /\ svg' = [svg EXCEPT !.op = "save", !.text = save(svg.elements)]
    /\ UNCHANGED <<canvasVars, graph, dataset, figure>>

SvgNext == SvgDraw \/ DrawSvg \/ SvgClear \/ SvgGetText \/ SvgSave

SpecSvg == SvgInit /\ [][SvgNext]_vars

\* ============================================ sequences of canvas calls
\* A canvas and any number of calls on it, one after the other, until one of
\* them panics.  figure keeps the arguments new was given.  The colours are
\* one, blend_pixel is called with alpha 0.0 and 1.0, and draw_pixel,
\* blend_pixel and the end points of draw_line take the corners of the canvas
\* and the points one past them, and the canvas is one or two rows high, so
\* that the buffers reached are finitely many and few.
MaxSide == 2

SeqPoints == {<<0, 0>>, <<width - 1, height - 1>>, <<width, 0>>, <<0, height>>}

SeqLineTypes ==
    {<<"Solid", 0, 0>>, <<"SolidThick", 0, 0>>, <<"Dashed", 1, 0>>, <<"Dotted", 2, 0>>,
     <<"Squared", 1, 1>>}

InitSeq ==
    /\ width \in 1..MaxSide
    /\ height \in {1, 2}
    /\ background_color = <<10, 20, 30>>
    /\ margin \in {0, MaxSide + 1}
    /\ overflow_checks \in BOOLEAN
    /\ buffer = new(width, height)
    /\ panicked = FALSE
    /\ last = [op |-> "new", args |-> <<>>, color |-> background_color,
               alpha |-> <<0, 1>>, style |-> NoStyle, pre |-> <<>>,
               after |-> "none"]
    /\ svg = NoObject /\ graph = NoObject /\ dataset = NoObject
    /\ figure = [op |-> "new", width |-> width, height |-> height,
                 background_color |-> background_color, margin |-> margin]

\* The state after a call: the history keeps the name of the call alone.
FinishSeq(cv, op) ==
    /\ buffer' = cv.buffer
    /\ panicked' = cv.panicked
    /\ last' = [op |-> op, args |-> <<>>, color |-> background_color,
                alpha |-> <<0, 1>>, style |-> NoStyle, pre |-> <<>>,
                after |-> "any"]
    /\ UNCHANGED <<width, height, background_color, margin, overflow_checks>>
    /\ UNCHANGED <<svg, graph, dataset, figure>>

SeqClear == ~panicked /\ FinishSeq(clear(Here), "clear")

SeqDrawPixel ==
    /\ ~panicked
    /\ \E p \in SeqPoints, c \in LineColors :
          FinishSeq(draw_pixel(Here, AsU32(p[1]), AsU32(p[2]), c), "draw_pixel")

SeqBlendPixel ==
    /\ ~panicked
    /\ \E p \in SeqPoints, c \in LineColors, a \in {<<0, 1>>, <<1, 1>>} :
          FinishSeq(blend_pixel(Here, AsU32(p[1]), AsU32(p[2]), c, a), "blend_pixel")

SeqDrawHorizontalLine ==
    /\ ~panicked
    /\ \E y \in {0, height}, c \in LineColors :
          FinishSeq(draw_horizontal_line(Here, AsU32(y), c), "draw_horizontal_line")

SeqDrawVerticalLine ==
    /\ ~panicked
    /\ \E x \in {0, width}, c \in LineColors :
          FinishSeq(draw_vertical_line(Here, AsU32(x), c), "draw_vertical_line")

SeqDrawGrid ==
    /\ ~panicked
    /\ \E g \in GridConfigs, c \in LineColors :
          /\ ~GridRunsOn(g)
          /\ FinishSeq(draw_grid(Here, g, c), "draw_grid")

SeqDrawText ==
    /\ ~panicked
    /\ \E p \in SeqPoints, text \in {<<>>, <<GlyphDot>>}, c \in LineColors :
          FinishSeq(draw_text(Here, p[1], p[2], text, c), "draw_text")

SeqDrawTextVertical ==
    /\ ~panicked
    /\ \E p \in SeqPoints, text \in {<<GlyphDot, GlyphDot>>}, c \in LineColors :
          FinishSeq(draw_text_vertical(Here, p[1], p[2], text, c), "draw_text_vertical")

SeqDrawLine ==
    /\ ~panicked
    /\ \E p \in SeqPoints \cup {<<0 - 1, 0 - 1>>},
          q \in {<<width - 1, height - 1>>, <<0, height>>, <<0 - 1, 0 - 1>>},
          c \in LineColors, t \in SeqLineTypes :
          FinishSeq(draw_line(Here, p[1], p[2], q[1], q[2], c, t), "draw_line")

NextSeq ==
    \/ SeqClear
    \/ SeqDrawPixel
    \/ SeqBlendPixel
    \/ SeqDrawHorizontalLine
    \/ SeqDrawVerticalLine
    \/ SeqDrawGrid
    \/ SeqDrawText
    \/ SeqDrawTextVertical
    \/ SeqDrawLine

SpecSeq == InitSeq /\ [][NextSeq]_vars

\* ================================================ draw_line, pass by pass
\* One draw_line call on a canvas as constructed, followed one pass of its
\* loop at a time.  figure holds the locals of the call: the end points, the
\* set-up g, the cursor (x, y), err, the dash state d, the number of passes
\* made and the cursor before the last pass.  The call ends by the statements
\* after the loop (op = "done") or by a panic.  MaxPasses is more than the
\* passes of any line of the model.
MaxPasses == MaxW + MaxH + 4

StepLineTypes ==
    {<<"Solid", 0, 0>>, <<"SolidThick", 0, 0>>, <<"Dashed", 1, 0>>, <<"Dashed", MaxDash, 0>>,
     <<"Dotted", 1, 0>>, <<"Squared", 1, 1>>}

InitStep ==
    /\ width \in {1, MaxW}
    /\ height \in {1, MaxH}
    /\ background_color = <<255, 255, 255>>
    /\ margin = 0
    /\ overflow_checks \in BOOLEAN
    /\ buffer = new(width, height)
    /\ panicked = FALSE
    /\ last = [op |-> "new", args |-> <<>>, color |-> background_color,
               alpha |-> <<0, 1>>, style |-> NoStyle, pre |-> <<>>,
               after |-> "none"]
    /\ svg = NoObject /\ graph = NoObject /\ dataset = NoObject
    /\ \E x1 \in (0 - 1)..width, y1 \in (0 - 1)..height,
          x2 \in (0 - 1)..width, y2 \in (0 - 1)..height, t \in StepLineTypes :
          figure = [op |-> "loop", x1 |-> x1, y1 |-> y1, x2 |-> x2, y2 |-> y2,
                    line_type |-> t, g |-> LineSetup(x1, y1, x2, y2),
                    x |-> x1, y |-> y1, err |-> LineSetup(x1, y1, x2, y2).err,
                    d |-> [is_drawing |-> TRUE, segment_length |-> 0,
                           dash_length |-> t[2]],
                    passes |-> 0, from |-> <<x1, y1>>]

FinishStep(cv, f) ==
    /\ buffer' = cv.buffer
    /\ panicked' = cv.panicked
    /\ figure' = f
    /\ last' = [op |-> "draw_line", args |-> <<f.x1, f.y1, f.x2, f.y2>>,
                color |-> <<50, 150, 250>>, alpha |-> <<1, 1>>, style |-> f.line_type,
                pre |-> <<>>, after |-> "new"]
    /\ UNCHANGED <<width, height, background_color, margin, overflow_checks>>
    /\ UNCHANGED <<svg, graph, dataset>>

\* The writes of one pass of the loop of the style, before the stepping code.
PassWrites(cv, f, color) ==
    CASE f.line_type[1] = "Solid" -> draw_pixel(cv, AsU32(f.x), AsU32(f.y), color)
      [] f.line_type[1] = "SolidThick" -> ThickStripe(cv, f.x, f.y, color)
      [] OTHER -> IF f.d.is_drawing THEN draw_pixel(cv, AsU32(f.x), AsU32(f.y), color)
                  ELSE cv

\* The dash state after one pass.
PassDash(f) ==
    LET toggle == f.d.segment_length + 1 = f.d.dash_length
    IN  IF f.line_type[1] \in {"Dashed", "Dotted"}
        THEN [is_drawing |-> IF toggle THEN ~f.d.is_drawing ELSE f.d.is_drawing,
              segment_length |-> IF toggle THEN 0 ELSE f.d.segment_length + 1,
              dash_length |-> f.d.dash_length]
        ELSE f.d

\* One pass of `while x != x2 || y != y2 { .. }`.  A pass that panics in a
\* write leaves the locals as they were.
LoopPass ==
    /\ ~panicked /\ figure.op = "loop" /\ figure.line_type[1] # "Squared"
    /\ figure.x # figure.x2 \/ figure.y # figure.y2
    /\ figure.passes < MaxPasses
    /\ LET written == PassWrites(Here, figure, <<50, 150, 250>>)
           n == LineStep(figure.x, figure.y, figure.err, figure.g)
       IN  IF written.panicked THEN FinishStep(written, figure)
           ELSE FinishStep(written,
                           [figure EXCEPT !.x = n.x, !.y = n.y, !.err = n.err,
                                          !.d = PassDash(figure),
                                          !.passes = @ + 1,
                                          !.from = <<figure.x, figure.y>>])

\* The statements after the loop: the write of the final pixel.
LoopExit ==
    /\ ~panicked /\ figure.op = "loop" /\ figure.line_type[1] # "Squared"
    /\ figure.x = figure.x2 /\ figure.y = figure.y2
    /\ FinishStep(IF figure.line_type[1] \in {"Solid", "SolidThick"} \/ figure.d.is_drawing
                  THEN draw_pixel(Here, AsU32(figure.x2), AsU32(figure.y2), <<50, 150, 250>>)
                  ELSE Here,
                  [figure EXCEPT !.op = "done"])

\* The arm of LineType::Squared: no loop, and the call returns.
SquaredArm ==
    /\ ~panicked /\ figure.op = "loop" /\ figure.line_type[1] = "Squared"
    /\ FinishStep(Here, [figure EXCEPT !.op = "done"])

NextStep == LoopPass \/ LoopExit \/ SquaredArm

SpecStep == InitStep /\ [][NextStep]_vars

\* ---------------------------------------------------- reading the buffer
\* What the claims say about the buffer, in plain integers: the pixels of
\* the canvas, the colour a buffer holds at a pixel, and the buffer that
\* differs from buf exactly by the pixels of S holding colour c.
CanvasPixels == (0..(width - 1)) \X (0..(height - 1))

InCanvas(x, y) == x >= 0 /\ x < width /\ y >= 0 /\ y < height

PixelOf(buf, x, y) ==
    LET o == (y * width + x) * 3
    IN  <<buf[o + 1], buf[o + 2], buf[o + 3]>>

Painted(buf, S, c) ==
    [k \in 1..Len(buf) |->
        LET p == (k - 1) \div 3
        IN  IF <<p % width, p \div width>> \in S THEN c[((k - 1) % 3) + 1] ELSE buf[k]]

\* a / n rounded to the nearest integer, halves upwards (a >= 0, n > 0).
RoundDiv(a, n) == (2 * a + n) \div (2 * n)

\* The digital line from (x1, y1) to (x2, y2): one pixel for each unit step
\* i = 0..N along the longer axis, N = max(|x2 - x1|, |y2 - y1|), the other
\* coordinate being that of the straight line rounded to the nearest pixel.
LineLength(x1, y1, x2, y2) ==
    IF Abs(x2 - x1) >= Abs(y2 - y1) THEN Abs(x2 - x1) ELSE Abs(y2 - y1)

LinePoint(x1, y1, x2, y2, i) ==
    LET adx == Abs(x2 - x1)
        ady == Abs(y2 - y1)
        sx == IF x1 < x2 THEN 1 ELSE 0 - 1
        sy == IF y1 < y2 THEN 1 ELSE 0 - 1
    IN  IF adx = 0 /\ ady = 0 THEN <<x1, y1>>
        ELSE IF adx >= ady
             THEN <<x1 + sx * i, y1 + sy * RoundDiv(i * ady, adx)>>
             ELSE <<x1 + sx * RoundDiv(i * adx, ady), y1 + sy * i>>

\* The call in `last`, for the claims about draw_line.
LineCall == last.op = "draw_line"
LX1 == last.args[1]
LY1 == last.args[2]
LX2 == last.args[3]
LY2 == last.args[4]
LineInside == InCanvas(LX1, LY1) /\ InCanvas(LX2, LY2)
LineIndices == 0..LineLength(LX1, LY1, LX2, LY2)
LinePath(K) == {LinePoint(LX1, LY1, LX2, LY2, i) : i \in K}

\* --------------------------------------------------------------- claims

\* C1: draw_pixel(x, y, c) with x >= width or y >= height changes no byte of
\* the buffer (and does not panic).  The code checks only the byte offset, so
\* x >= width with y < height - 1 lands in the next row.
C1_OutOfBoundsIsNoOp ==
    (last.op = "draw_pixel" /\ (last.args[1] >= width \/ last.args[2] >= height))
        => (~panicked /\ buffer = last.pre)

\* C2: for x < width and y < height, after draw_pixel(x, y, c) pixel (x, y)
\* reads c and every other pixel is unchanged.
C2_DrawPixelWrites ==
    (last.op = "draw_pixel" /\ last.args[1] < width /\ last.args[2] < height)
        => /\ ~panicked
           /\ PixelOf(buffer, last.args[1], last.args[2]) = last.color
           /\ buffer = Painted(last.pre, {<<last.args[1], last.args[2]>>}, last.color)

C2_Witness ==
    /\ last.op = "draw_pixel"
    /\ width > 1 /\ height > 1
    /\ last.args = <<width - 1, height - 1>>
    /\ last.pre[1] # 0
    /\ PixelOf(buffer, width - 1, height - 1) = last.color
    /\ PixelOf(buffer, 0, 0) = PixelOf(last.pre, 0, 0)

\* C3: a Solid draw_line between two points of the canvas paints exactly the
\* pixels of the digital line between them, both ends included, whatever the
\* margin, and changes no other pixel.
C3_SolidIsDigitalLine ==
    (LineCall /\ last.style[1] = "Solid" /\ LineInside)
        => /\ ~panicked
           /\ buffer = Painted(last.pre, LinePath(LineIndices), last.color)

C3_Witness ==
    /\ LineCall /\ last.style[1] = "Solid"
    /\ margin > 0
    /\ width >= 5 /\ height >= 3
    /\ last.args = <<0, 0, 4, 2>>
    /\ last.pre[1] # 0
    /\ PixelOf(buffer, 4, 2) = last.color
    /\ PixelOf(buffer, 1, 1) = last.color
    /\ PixelOf(buffer, 1, 0) = PixelOf(last.pre, 1, 0)

\* C4: a Dashed(n) draw_line, n >= 1, between two points of the canvas paints
\* pixel i of the path (the final one included) iff floor(i / n) is even;
\* the other pixels of the path and of the canvas keep their colour.
DashOn(i) == (i \div last.style[2]) % 2 = 0

C4_DashedRuns ==
    (LineCall /\ last.style[1] = "Dashed" /\ last.style[2] >= 1 /\ LineInside)
        => /\ ~panicked
           /\ buffer = Painted(last.pre, LinePath({i \in LineIndices : DashOn(i)}), last.color)

C4_Witness ==
    /\ LineCall /\ last.style = <<"Dashed", 2, 0>>
    /\ width >= 5
    /\ last.args = <<0, 0, 4, 0>>
    /\ last.pre[1] # 0
    /\ PixelOf(buffer, 0, 0) = last.color /\ PixelOf(buffer, 1, 0) = last.color
    /\ PixelOf(buffer, 2, 0) = PixelOf(last.pre, 2, 0)
    /\ PixelOf(buffer, 3, 0) = PixelOf(last.pre, 3, 0)
    /\ PixelOf(buffer, 4, 0) = last.color

\* C5: a zero-length draw_line at a point of the canvas paints that one pixel
\* and no other, for Solid, SolidThick, Dashed(n) and Dotted(n), n >= 1.
C5_ZeroLengthOnePixel ==
    (/\ LineCall /\ LineInside
     /\ LX1 = LX2 /\ LY1 = LY2
     /\ \/ last.style[1] \in {"Solid", "SolidThick"}
        \/ (last.style[1] \in {"Dashed", "Dotted"} /\ last.style[2] >= 1))
        => /\ ~panicked
           /\ buffer = Painted(last.pre, {<<LX1, LY1>>}, last.color)

C5_Witness ==
    /\ LineCall /\ last.style[1] = "SolidThick"
    /\ width >= 2 /\ height >= 3
    /\ last.args = <<1, 1, 1, 1>>
    /\ PixelOf(buffer, 1, 1) = last.color
    /\ PixelOf(buffer, 1, 0) = PixelOf(last.pre, 1, 0)
    /\ PixelOf(buffer, 1, 2) = PixelOf(last.pre, 1, 2)

\* C6: a Squared(gap, size) draw_line does not silently do nothing: it draws
\* its squares (so the start of the path holds the line colour) or ends with
\* an outcome the caller can tell from a successful draw.  draw_line returns
\* the unit value, so the only such outcome is a panic.
C6_SquaredNotSilent ==
    (LineCall /\ last.style[1] = "Squared" /\ LineInside)
        => (panicked \/ PixelOf(buffer, LX1, LY1) = last.color)

\* C7: a draw_line with a negative coordinate in an end point never panics
\* and paints no pixel for a path position with a negative coordinate: the
\* positions outside the canvas are dropped.  (No coordinate here is beyond
\* the right or the bottom edge.)
C7_NegativeDropped ==
    (/\ LineCall /\ last.style[1] = "Solid"
     /\ (LX1 < 0 \/ LY1 < 0 \/ LX2 < 0 \/ LY2 < 0)
     /\ LX1 < width /\ LX2 < width /\ LY1 < height /\ LY2 < height)
        => /\ ~panicked
           /\ buffer = Painted(last.pre, LinePath(LineIndices) \cap CanvasPixels, last.color)

\* C8: for (x, y) in the canvas, blend_pixel(x, y, c, 1.0) leaves the buffer
\* as draw_pixel(x, y, c) would, and blend_pixel(x, y, c, 0.0) leaves it as
\* it was.
C8_BlendEnds ==
    (last.op = "blend_pixel" /\ InCanvas(last.args[1], last.args[2]))
        => /\ ~panicked
           /\ last.alpha = <<1, 1>> =>
                buffer = draw_pixel(Canvas(last.pre, FALSE), AsU32(last.args[1]),
                                    AsU32(last.args[2]), last.color).buffer
           /\ last.alpha = <<0, 1>> => buffer = last.pre

C8_Witness ==
    /\ last.op = "blend_pixel"
    /\ last.alpha = <<1, 1>>
    /\ width > 1 /\ height > 1
    /\ last.args = <<1, 1>>
    /\ last.pre[1] # 0
    /\ PixelOf(buffer, 1, 1) = last.color
    /\ PixelOf(buffer, 0, 1) = PixelOf(last.pre, 0, 1)

\* C9: with 2 * margin <= width and y < height, draw_horizontal_line(y, c)
\* sets exactly the pixels (x, y), margin <= x < width - margin, to c; with
\* 2 * margin <= height and x < width, draw_vertical_line(x, c) sets exactly
\* the pixels (x, y), margin <= y < height - margin.
C9_AxisLines ==
    /\ (last.op = "draw_horizontal_line" /\ 2 * margin <= width /\ last.args[1] < height)
          => /\ ~panicked
             /\ buffer = Painted(last.pre,
                                 {<<x, last.args[1]>> : x \in margin..(width - margin - 1)},
                                 last.color)
    /\ (last.op = "draw_vertical_line" /\ 2 * margin <= height /\ last.args[1] < width)
          => /\ ~panicked
             /\ buffer = Painted(last.pre,
                                 {<<last.args[1], y>> : y \in margin..(height - margin - 1)},
                                 last.color)

C9_Witness ==
    /\ last.op = "draw_horizontal_line"
    /\ margin = 1 /\ width >= 4 /\ height >= 2
    /\ last.args = <<1>>
    /\ last.pre[1] # 0
    /\ PixelOf(buffer, 1, 1) = last.color
    /\ PixelOf(buffer, width - 2, 1) = last.color
    /\ PixelOf(buffer, 0, 1) = PixelOf(last.pre, 0, 1)
    /\ PixelOf(buffer, width - 1, 1) = PixelOf(last.pre, width - 1, 1)

\* C10: draw_grid([x_step, y_step], c) with positive steps draws a vertical
\* line at every x = margin + k * x_step <= width - margin and a horizontal
\* line at every y = margin + k * y_step <= height - margin, and changes no
\* pixel that is not on one of them.
GridStops(extent, step) ==
    {v \in margin..(extent - margin) : (v - margin) % step = 0}

GridPixels(gx, gy) ==
    {p \in CanvasPixels :
        \/ (p[1] \in GridStops(width, gx) /\ p[2] >= margin /\ p[2] < height - margin)
        \/ (p[2] \in GridStops(height, gy) /\ p[1] >= margin /\ p[1] < width - margin)}

C10_GridLines ==
    (last.op = "draw_grid" /\ last.args[1] > 0 /\ last.args[2] > 0)
        => buffer = Painted(last.pre, GridPixels(last.args[1], last.args[2]), last.color)

\* The same, for the canvases on which neither `width - margin` nor
\* `height - margin` underflows.
C10_GridLinesNoUnderflow ==
    (/\ last.op = "draw_grid" /\ last.args[1] > 0 /\ last.args[2] > 0
     /\ margin <= width /\ margin <= height)
        => /\ ~panicked
           /\ buffer = Painted(last.pre, GridPixels(last.args[1], last.args[2]), last.color)

\* C11: with 2 * margin > width, draw_horizontal_line either panics or
\* changes no byte of the buffer, and likewise draw_vertical_line with
\* 2 * margin > height: the subtraction extent - margin never wraps into a
\* range whose passes paint pixels.
C11_NoWrappedPainting ==
    /\ (last.op = "draw_horizontal_line" /\ 2 * margin > width)
          => (panicked \/ buffer = last.pre)
    /\ (last.op = "draw_vertical_line" /\ 2 * margin > height)
          => (panicked \/ buffer = last.pre)

\* The same, for the canvases on which the subtraction does not underflow:
\* the range is empty and no byte changes.
C11_EmptyRangeNoUnderflow ==
    /\ (last.op = "draw_horizontal_line" /\ 2 * margin > width /\ margin <= width)
          => (~panicked /\ buffer = last.pre)
    /\ (last.op = "draw_vertical_line" /\ 2 * margin > height /\ margin <= height)
          => (~panicked /\ buffer = last.pre)

\* C12: the buffer of a new canvas has width * height * 3 bytes, all zero,
\* whatever the background; after a draw_pixel on the new canvas every other
\* pixel is black.
C12_NewIsBlack ==
    /\ last.op = "new"
          => /\ Len(buffer) = width * height * 3
             /\ \A i \in 1..Len(buffer) : buffer[i] = 0
    /\ (last.op = "draw_pixel" /\ last.after = "new" /\ ~panicked)
          => /\ Len(buffer) = width * height * 3
             /\ \A p \in CanvasPixels :
                   \/ PixelOf(buffer, p[1], p[2]) = <<0, 0, 0>>
                   \/ PixelOf(buffer, p[1], p[2]) = last.color

C12_Witness ==
    /\ last.op = "draw_pixel" /\ last.after = "new"
    /\ background_color = <<255, 255, 255>>
    /\ width >= 2 /\ height >= 2
    /\ last.args = <<1, 1>>
    /\ PixelOf(buffer, 1, 1) = last.color
    /\ PixelOf(buffer, 0, 0) = <<0, 0, 0>>

\* C13: after clear, the buffer has the length it had and every byte is
\* background_color[0], so every pixel reads (bg[0], bg[0], bg[0]).
C13_ClearFirstChannel ==
    last.op = "clear"
        => /\ Len(buffer) = Len(last.pre)
           /\ \A i \in 1..Len(buffer) : buffer[i] = background_color[1]
           /\ \A p \in CanvasPixels :
                 PixelOf(buffer, p[1], p[2])
                    = <<background_color[1], background_color[1], background_color[1]>>

C13_Witness ==
    /\ last.op = "clear" /\ last.after = "draw_pixel"
    /\ background_color = <<10, 20, 30>>
    /\ \E i \in 1..Len(last.pre) : last.pre[i] = 250
    /\ PixelOf(buffer, 0, 0) = <<10, 10, 10>>

\* C18: the text get_svg_as_text emits is the fixed header, then the
\* fragments added since the last clear (or since new) in insertion order,
\* then one closing tag; save writes the same, one element to a line.
C18_SvgDocument ==
    /\ svg.op = "get_svg_as_text"
          => svg.text = SvgHeader(svg.width, svg.height) \o PushAll("", svg.since) \o "</svg>"
    /\ svg.op = "save"
          => svg.text = SvgHeader(svg.width, svg.height) \o "\n"
                           \o WritelnAll("", svg.since) \o "</svg>\n"

\* The same, for a canvas that has never been cleared.
C18_SvgDocumentNoClear ==
    (svg.op \in {"get_svg_as_text", "save"} /\ Len(svg.elements) = Len(svg.since) + 1)
        => C18_SvgDocument

\* C20: for each of the five dataset types, get_points returns the points
\* added since new, in the order they were added, duplicates kept.
C20_GetPointsIsAdded ==
    dataset.op = "get_points" => dataset.got = dataset.added

C20_Witness ==
    /\ dataset.op = "get_points"
    /\ dataset.kind = "LineGraph"
    /\ Len(dataset.got) = MaxPoints
    /\ dataset.got[1] = dataset.got[MaxPoints]
    /\ dataset.got[1] # dataset.got[2]

\* C19: every point stored in the graph has x >= 0 and y >= 0, and the i-th
\* stored dataset is the i-th dataset handed to add_dataset with the points
\* outside the first quadrant removed: the others in their order, and the
\* colour, label and line type as handed in.
NonNegative(a) == (a[1] = "num" /\ a[2] >= 0) \/ a[1] \in {"-0.0", "inf"}

InFirstQuadrant(p) == NonNegative(p[1]) /\ NonNegative(p[2])

C19_FirstQuadrantOnly ==
    (graph.op = "add_dataset" /\ graph.kind = "Quadrant1Graph")
        => /\ Len(graph.datasets) = Len(graph.passed)
           /\ \A i \in 1..Len(graph.datasets) :
                 /\ \A k \in 1..Len(graph.datasets[i].points) :
                       InFirstQuadrant(graph.datasets[i].points[k])
                 /\ graph.datasets[i].points = SelectSeq(graph.passed[i].points, InFirstQuadrant)
                 /\ graph.datasets[i].color = graph.passed[i].color
                 /\ graph.datasets[i].label = graph.passed[i].label
                 /\ graph.datasets[i].line_type = graph.passed[i].line_type

C19_Witness ==
    /\ graph.op = "add_dataset" /\ graph.kind = "Quadrant1Graph"
    /\ Len(graph.passed) = 2
    /\ graph.passed[2].points = <<<<Num(1), Num(2)>>, <<Num(4), Num(0 - 2)>>, <<Num(0), NegZero>>>>
    /\ graph.datasets[2].points = <<<<Num(1), Num(2)>>, <<Num(0), NegZero>>>>
    /\ graph.datasets[2].label = "Temperature"

\* C15: draw_area on two points that map to the same pixel column x1
\* divides by no zero and blends exactly the pixels (x1, y) with
\* min(y1, y2) <= y <= origin_y, each once.
Blended(buf, S, c, a) ==
    [i \in DOMAIN buf |->
        IF <<((i - 1) \div 3) % width, (i - 1) \div (3 * width)>> \in S
        THEN F64AsU8(c[((i - 1) % 3) + 1] * a[1] + buf[i] * (a[2] - a[1]), a[2])
        ELSE buf[i]]

AreaX(k) == last.args[2] + last.args[1][k][1] * last.args[4]
AreaY(k) == last.args[3] - last.args[1][k][2] * last.args[5]
AreaTwoPointsOneColumn ==
    /\ last.op = "draw_area"
    /\ Len(last.args[1]) = 2
    /\ AreaX(1) = AreaX(2)
    /\ AreaX(1) < width
    /\ AreaY(1) >= 0 /\ AreaY(2) >= 0

C15_SameColumnFill ==
    AreaTwoPointsOneColumn
        => /\ ~last.zero_division
           /\ ~panicked
           /\ LET top == IF AreaY(1) < AreaY(2) THEN AreaY(1) ELSE AreaY(2)
              IN  buffer = Blended(last.pre, {<<AreaX(1), y>> : y \in top..last.args[3]},
                                   last.color, last.alpha)

\* What the code does on such a pair: it blends from y1, the row of the
\* point that comes first, whether or not y2 is above it.
C15_SameColumnFillFromFirst ==
    AreaTwoPointsOneColumn
        => /\ ~panicked
           /\ buffer = Blended(last.pre, {<<AreaX(1), y>> : y \in AreaY(1)..last.args[3]},
                               last.color, last.alpha)

\* C14: when the points of a ScatterGraph or Quadrant1Graph all have the
\* same x (or there is no point), the scale_x its draw computes is finite,
\* neither an infinity nor NaN; and likewise scale_y for y.
ConstantOn(points, c) ==
    \A i \in 1..Len(points), j \in 1..Len(points) : points[i][c] = points[j][c]

C14_ScaleIsFinite ==
    (last.op = "draw" /\ figure.kind \in {"ScatterGraph", "Quadrant1Graph"})
        => /\ (ConstantOn(figure.points, 1) /\ figure.scale_x # NoScale)
                 => figure.scale_x.class = "finite"
           /\ (ConstantOn(figure.points, 2) /\ figure.scale_y # NoScale)
                 => figure.scale_y.class = "finite"

\* The same, for the figures with a point of positive x and positive y:
\* each range reaches from at most 0.0 to above it.
C14_ScaleIsFiniteOnARange ==
    (/\ last.op = "draw" /\ figure.kind \in {"ScatterGraph", "Quadrant1Graph"}
     /\ \E i \in 1..Len(figure.points) :
            F64Gt(figure.points[i][1], Num(0)) /\ F64Gt(figure.points[i][2], Num(0)))
        => /\ figure.scale_x # NoScale => figure.scale_x.class = "finite"
           /\ figure.scale_y # NoScale => figure.scale_y.class = "finite"

\* C16: the draw of a figure whose font_title or font_label is unset fails
\* and, at the failure, the buffer is what it was before the call.
C16_UnsetFontLeavesCanvas ==
    (last.op = "draw" /\ (~figure.font_title \/ ~figure.font_label))
        => (panicked /\ buffer = last.pre)

\* The draw of such a figure does fail.
C16_UnsetFontFails ==
    (last.op = "draw" /\ (~figure.font_title \/ ~figure.font_label)) => panicked

\* C17: the draw of a figure whose fonts are both set runs to completion:
\* it does not panic.
C17_DrawCompletes ==
    (last.op = "draw" /\ figure.font_title /\ figure.font_label) => ~panicked

\* C21: draw_line with Dashed(n), n >= 1, on a line whose path has L pixels
\* paints a number of pixels that differs from ceil(L / (2n)) * n by at most
\* one.  (The canvas holds no pixel of the line colour before the call, so the
\* painted pixels are the path pixels that have it afterwards.)
DashedCall ==
    /\ LineCall /\ last.style[1] = "Dashed" /\ last.style[2] >= 1 /\ LineInside
    /\ \A p \in LinePath(LineIndices) : PixelOf(last.pre, p[1], p[2]) # last.color

PathPixels == LineLength(LX1, LY1, LX2, LY2) + 1

PaintedCount ==
    Cardinality({p \in LinePath(LineIndices) : PixelOf(buffer, p[1], p[2]) = last.color})

CeilDiv(a, b) == (a + b - 1) \div b

C21_DashedCountWithinOne ==
    DashedCall =>
        LET n == last.style[2]
            full == CeilDiv(PathPixels, 2 * n) * n
        IN  PaintedCount - full \in (0 - 1)..1

\* C21, amended: the number of painted pixels is floor(L / (2n)) * n plus
\* min(L mod 2n, n): whole on/off periods paint n pixels each and the rest
\* paints its first n.  It never exceeds ceil(L / (2n)) * n and falls short of
\* it by at most n - 1.
C21_DashedCount ==
    DashedCall =>
        LET n == last.style[2]
            L == PathPixels
            r == L % (2 * n)
        IN  /\ ~panicked
            /\ PaintedCount = (L \div (2 * n)) * n + (IF r < n THEN r ELSE n)
            /\ PaintedCount <= CeilDiv(L, 2 * n) * n
            /\ CeilDiv(L, 2 * n) * n - PaintedCount <= n - 1

C21_Witness ==
    /\ DashedCall /\ last.style[2] = 3
    /\ width >= 5
    /\ last.args = <<0, 0, 4, 0>>
    /\ PaintedCount = 3
    /\ PixelOf(buffer, 2, 0) = last.color
    /\ PixelOf(buffer, 3, 0) = PixelOf(last.pre, 3, 0)

\* C22: draw_line with SolidThick paints a 5-pixel vertical stripe at every
\* pixel the line visits, the final end point (x2, y2) included: every pixel
\* (x, y - 2) .. (x, y + 2) of the canvas has the line colour after the call.
ThickCall == LineCall /\ last.style[1] = "SolidThick" /\ LineInside

StripeOf(p) == {<<p[1], p[2] + d>> : d \in (0 - 2)..2}

StripesPainted(K) ==
    \A p \in LinePath(K) : \A q \in StripeOf(p) :
        InCanvas(q[1], q[2]) => PixelOf(buffer, q[1], q[2]) = last.color

C22_ThickStripes == ThickCall => StripesPainted(LineIndices)

\* What the code does paint when it does not panic: the stripes of the
\* visited pixels before the final end point, and the end point itself.
C22_ThickStripesBeforeEnd ==
    (ThickCall /\ ~panicked) =>
        /\ StripesPainted(LineIndices \ {LineLength(LX1, LY1, LX2, LY2)})
        /\ PixelOf(buffer, LX2, LY2) = last.color

\* C23: after any sequence of add_data / add_data_vec calls the cached
\* bin_counts are the frequencies of the data: bin_counts[i] is the number of
\* stored values v with min + i * bin_width <= v < min + (i + 1) * bin_width
\* under the current min, max and bin_width, and calculate_bins returns each
\* bin's start with that frequency.
InBin(h, v, i) ==
    LET lo == F64Rank(h.min) * h.bin_width.den + i * h.bin_width.num
    IN  /\ h.bin_width.class = "finite"
        /\ lo <= v * h.bin_width.den
        /\ v * h.bin_width.den < lo + h.bin_width.num

Frequency(h, i) == Cardinality({j \in 1..Len(h.data) : InBin(h, h.data[j], i)})

C23_BinCountsAreFrequencies ==
    (figure.kind = "Histogram" /\ figure.op # "new") =>
        /\ \A i \in 1..figure.bins : figure.bin_counts[i] = Frequency(figure, i - 1)
        /\ figure.op = "calculate_bins" =>
              \A i \in 1..figure.bins :
                  figure.result[i] = <<BinStart(figure, i - 1), Frequency(figure, i - 1)>>

\* C24: Drawer::draw_grid with cfg.num_grid_horizontal = H and
\* cfg.num_grid_vertical = V draws exactly H horizontal and V vertical grid
\* lines: the canvas that draw has cleared holds, when draw_grid returns, the
\* grid colour on H rows and V columns between the margins and on no other
\* pixel.  (draw stops at draw_label after the grid, so the buffer of the
\* state is the grid's.)
GridDrawn ==
    /\ figure.op = "draw" /\ figure.kind \in {"ScatterGraph", "Quadrant1Graph"}
    /\ figure.scale_y.class # "none"

GridLinePixels(R, C) ==
    {p \in CanvasPixels :
        \/ (p[2] \in R /\ p[1] >= margin /\ p[1] < width - margin)
        \/ (p[1] \in C /\ p[2] >= margin /\ p[2] < height - margin)}

C24_GridLineCounts ==
    GridDrawn =>
        \E R \in SUBSET (0..(height - 1)), C \in SUBSET (0..(width - 1)) :
            /\ Cardinality(R) = figure.grid[1]
            /\ Cardinality(C) = figure.grid[2]
            /\ buffer = Painted(clear(Canvas(last.pre, FALSE)).buffer,
                                GridLinePixels(R, C), ColorGrid)

\* What the code draws where no `extent - margin` underflows: the two numbers
\* are the spacing of the lines, the first of the vertical ones and the
\* second of the horizontal ones.
C24_GridSpacing ==
    (GridDrawn /\ margin <= width /\ margin <= height) =>
        buffer = Painted(clear(Canvas(last.pre, FALSE)).buffer,
                         GridPixels(figure.grid[1], figure.grid[2]), ColorGrid)

\* C25: draw_area on two points mapped to the pixel columns x1 < x2 blends,
\* in every column x of x1..x2, every pixel (x, y) between the interpolated
\* line height at x (y1 at x1, y2 at x2) and the baseline origin_y,
\* inclusive, whichever side of the baseline the line is on, and no other
\* pixel.  (Both mapped points are pixels of the canvas.)
AreaSorted == SortByX(last.args[1])
AreaSX(k) == last.args[2] + AreaSorted[k][1] * last.args[4]
AreaSY(k) == last.args[3] - AreaSorted[k][2] * last.args[5]

AreaTwoPointsTwoColumns ==
    /\ last.op = "draw_area"
    /\ Len(last.args[1]) = 2
    /\ AreaSX(1) < AreaSX(2)
    /\ InCanvas(AreaSX(1), AreaSY(1)) /\ InCanvas(AreaSX(2), AreaSY(2))

LineHeight(x) ==
    LET n == (x - AreaSX(1)) * (AreaSY(2) - AreaSY(1))
        d == AreaSX(2) - AreaSX(1)
    IN  AreaSY(1) + (IF n >= 0 THEN n \div d ELSE 0 - ((0 - n) \div d))

AreaSpan ==
    {p \in CanvasPixels :
        /\ p[1] >= AreaSX(1) /\ p[1] <= AreaSX(2)
        /\ \/ (LineHeight(p[1]) <= p[2] /\ p[2] <= last.args[3])
           \/ (last.args[3] <= p[2] /\ p[2] <= LineHeight(p[1]))}

C25_FillToBaseline ==
    AreaTwoPointsTwoColumns
        => /\ ~panicked
           /\ buffer = Blended(last.pre, AreaSpan, last.color, last.alpha)

\* What the code does: it blends the rows from the line down to the baseline,
\* and nothing in a column where the line is below the baseline.
C25_FillAboveBaseline ==
    AreaTwoPointsTwoColumns
        => /\ ~panicked
           /\ buffer = Blended(last.pre,
                               {p \in AreaSpan : LineHeight(p[1]) <= p[2] /\ p[2] <= last.args[3]},
                               last.color, last.alpha)

\* C26: after LineGraph::add_dataset or Quadrant1Graph::add_dataset, when
\* every attached dataset has at least one point (and no coordinate is NaN),
\* the stored range is symmetric about the origin: x_max is the largest |x|
\* of the attached points and x_min = -x_max, and likewise for y.
AttachedPoints ==
    UNION {{graph.datasets[i].points[k] : k \in 1..Len(graph.datasets[i].points)} :
               i \in 1..Len(graph.datasets)}

AllAttachedNonEmpty ==
    /\ graph.op = "add_dataset"
    /\ \A i \in 1..Len(graph.datasets) : graph.datasets[i].points # <<>>
    /\ \A p \in AttachedPoints : p[1] # NaN /\ p[2] # NaN

F64Eq(a, b) == a # NaN /\ b # NaN /\ F64Rank(a) = F64Rank(b)

IsMaxAbs(v, c) ==
    /\ \E p \in AttachedPoints : F64Eq(v, F64Abs(p[c]))
    /\ \A p \in AttachedPoints : F64Ge(v, F64Abs(p[c]))

RangeSymmetric ==
    /\ IsMaxAbs(graph.range.x_max, 1)
    /\ F64Eq(graph.range.x_min, F64Neg(graph.range.x_max))
    /\ IsMaxAbs(graph.range.y_max, 2)
    /\ F64Eq(graph.range.y_min, F64Neg(graph.range.y_max))

C26_RangeSymmetric == AllAttachedNonEmpty => RangeSymmetric

\* The same for a Quadrant1Graph alone, whose points are never negative.
C26_RangeSymmetricQuadrant1 ==
    (AllAttachedNonEmpty /\ graph.kind = "Quadrant1Graph") => RangeSymmetric

\* The same for a LineGraph with a point of x >= 0 and a point of y >= 0.
C26_RangeSymmetricWithPositive ==
    (/\ AllAttachedNonEmpty
     /\ \E p \in AttachedPoints : F64Ge(p[1], Num(0))
     /\ \E p \in AttachedPoints : F64Ge(p[2], Num(0))) => RangeSymmetric

\* C27: for a ScatterGraph the pixel at which draw centres the marker of a
\* data point p is to_canvas_coordinates(p) on the same canvas, up to one
\* pixel on each axis, for every dataset, negative x or y values included.
BothMapped ==
    /\ figure.kind = "ScatterGraph" /\ figure.op \in {"draw", "to_canvas_coordinates"}
    /\ figure.hover # <<>>
    /\ (figure.centres # <<>> \/ panicked)

\* The draw handed every marker to draw_dot, whether or not it panicked
\* after that.
AllMarkersDrawn == BothMapped /\ Len(figure.centres) = Len(figure.points)

C27_DrawMatchesHover ==
    BothMapped =>
        /\ ~panicked
        /\ \A k \in 1..Len(figure.points) :
              /\ Abs(figure.centres[k][1] - figure.hover[k][1]) <= 1
              /\ Abs(figure.centres[k][2] - figure.hover[k][2]) <= 1

\* The same for the datasets with no negative x and no negative y, on which
\* origin_x and origin_y are the margins: the markers the draw reaches are
\* centred where hover maps their points, and a draw without overflow checks
\* reaches them all.
C27_DrawMatchesHoverFirstQuadrant ==
    (BothMapped /\ FilterFirstQuadrant(figure.points) = figure.points) =>
        /\ ~overflow_checks => (~panicked /\ AllMarkersDrawn)
        /\ \A k \in 1..Len(figure.centres) : figure.centres[k] = figure.hover[k]

\* Where every marker was handed to draw_dot, the centres are apart from the
\* hover pixels by the offset of the minimum, for some dataset by more than
\* one pixel.
C27_MarkersWithinOnePixel ==
    AllMarkersDrawn =>
        \A k \in 1..Len(figure.points) :
            /\ Abs(figure.centres[k][1] - figure.hover[k][1]) <= 1
            /\ Abs(figure.centres[k][2] - figure.hover[k][2]) <= 1

\* ---------------------------------------------------------------------- C28
\* Whether the draw began the step s, and its place among the steps begun.
HasStep(s) == \E i \in 1..Len(figure.steps) : figure.steps[i] = s
StepIndex(s) == CHOOSE i \in 1..Len(figure.steps) : figure.steps[i] = s

\* The buffer of a canvas that holds the background only, and the buffer the
\* step s of the draw of the figure leaves when it alone paints on it: the
\* pixels of it that are not background are the pixels the step covers.
Cleared == [i \in 1..(width * height * 3) |-> background_color[1]]
Background == <<background_color[1], background_color[1], background_color[1]>>
StepAlone(s) ==
    IF HasStep(s) THEN DrawStep(Canvas(Cleared, FALSE), figure, s).buffer ELSE Cleared

C29_ShapeKept ==
    /\ Len(buffer) = width * height * 3
    /\ width = figure.width /\ height = figure.height
    /\ margin = figure.margin /\ background_color = figure.background_color

\* A canvas that was cleared and then drawn on, a draw_line being the last
\* call: it holds a pixel of the cleared background and a pixel of the line
\* colour.
C29_Witness ==
    /\ last.op = "draw_line" /\ ~panicked
    /\ \E x \in 0..(width - 1), y \in 0..(height - 1) :
          PixelOf(buffer, x, y)
              = <<background_color[1], background_color[1], background_color[1]>>
    /\ \E x \in 0..(width - 1), y \in 0..(height - 1) :
          PixelOf(buffer, x, y) \in LineColors

\* ---------------------------------------------------------------------- C30
StepMax == IF figure.g.dx > 0 - figure.g.dy THEN figure.g.dx ELSE 0 - figure.g.dy
Between(v, a, b) == (a <= v /\ v <= b) \/ (b <= v /\ v <= a)
StepWithinBox ==
    /\ figure.passes <= StepMax
    /\ Between(figure.x, figure.x1, figure.x2) /\ Between(figure.y, figure.y1, figure.y2)
    /\ Abs(figure.x - figure.from[1]) <= 1 /\ Abs(figure.y - figure.from[2]) <= 1
StepAtEnd ==
    /\ figure.x = figure.x2 /\ figure.y = figure.y2
    /\ figure.passes = StepMax

\* C30: for every pair of end points and every line style the loop of
\* draw_line makes at most max(|x2 - x1|, |y2 - y1|) passes, each of which
\* moves the cursor by at most one pixel on each axis and keeps it in the
\* bounding box of the end points, and when the call has ended the cursor is
\* at (x2, y2) after exactly that many passes.
C30_LoopReachesEnd ==
    figure.op \in {"loop", "done"} =>
        /\ StepWithinBox
        /\ (figure.op = "done" \/ panicked) => StepAtEnd

\* The same for the calls that return from one of the three loops: the
\* styles other than Squared, when no write panics.
C30_LoopReachesEndOnReturn ==
    figure.op \in {"loop", "done"} =>
        /\ StepWithinBox
        /\ (figure.op = "done" /\ figure.line_type[1] # "Squared") => StepAtEnd

\* The buffer a call followed pass by pass returns with is the buffer of
\* draw_line.
C30_PassesAgreeWithCall ==
    (figure.op = "done" \/ panicked) =>
        LET cv == draw_line(Canvas(new(width, height), FALSE), figure.x1, figure.y1,
                            figure.x2, figure.y2, <<50, 150, 250>>, figure.line_type)
        IN  buffer = cv.buffer /\ panicked = cv.panicked
====
